---- MODULE Spec2Model ----
(***************************************************************************)
(* Document ingestion and retrieval pipeline of martin-ai: the chunkers    *)
(* (src/src/ingestion/chunker.py), the embedder                            *)
(* (src/src/models/embeddings.py), the vector index client                 *)
(* (src/src/knowledge/vector_store.py), the ingestion orchestrator         *)
(* (src/src/knowledge/knowledge_base.py) with the validators and document  *)
(* processors it uses, the batch ingestion script                          *)
(* (src/scripts/ingest/batch_ingest.py) and the retrying HTTP request of   *)
(* the LLM client (src/src/models/llm_interface.py).                       *)
(*                                                                         *)
(* A Python str is a sequence of one-character strings; a Python list is a *)
(* sequence; a Python dict is a function from keys to values.              *)
(***************************************************************************)
EXTENDS Integers, Sequences, FiniteSets, TLC

VARIABLES
    text,       \* chunker: the argument of chunk(text)
    chunker,    \* chunker: the instance get_chunker built (kind and parameters)
    pc,         \* chunker: position of the chunk() call
    start,      \* FixedSizeChunker.chunk: the local `start`
    iter,       \* FixedSizeChunker.chunk: iterations of the while loop so far, modulo 2
    chunks,     \* chunker: the local `chunks`, the returned list once pc = "returned"
    requests,   \* embedder: the requests the embed_batch call sent to the service, in order
    embed_out,  \* embedder: the embed_batch call made and what it returned
    exists,     \* index service: the index is in the service's list of indexes
    connected,  \* vector store: self.index is set
    index,      \* index service: the entries of the index, by id
    calls,      \* index service: the calls the last vector store operation made to it
    store_out,  \* vector store: the operation called on it directly and its outcome
    files,      \* file system: existence of each path and the place of its text in Documents
    kb_out,     \* knowledge base: the last operation called on it directly and its outcome
    meta_out,   \* validators: the extract_metadata_from_filename call made and its result
    llm,        \* LLM client: the _request_with_retry call, its events and its outcome
    script,     \* batch_ingest.main: its position, its locals and the calls it made
    clean_out   \* validators: the sanitize_text call made and its result

chunkVars == <<text, chunker, pc, start, iter, chunks>>
embedVars == <<requests, embed_out>>
storeVars == <<exists, connected, index, calls, store_out>>
kbVars == <<files, kb_out>>
restVars == <<meta_out, llm, script, clean_out>>
vars == <<chunkVars, embedVars, storeVars, kbVars, restVars>>

-----------------------------------------------------------------------------
(* Bounds of the model *)

\* longest text handed to a chunker
MaxLen == 4
\* largest chunk_size / max_chunk_size a chunker is built with
MaxSize == 3
\* largest chunk_overlap a chunker is built with
MaxOverlap == 3
\* largest min_chunk_size a SemanticChunker is built with
MaxMin == 2
\* longest text handed to the FixedSizeChunker on its own
MaxFixedLen == 3
\* longest text of sentences handed to the SemanticChunker on its own
MaxSentenceLen == 6
\* largest max_chunk_size of the SemanticChunker on its own
MaxSentenceSize == 5
\* most words in a file name handed to extract_metadata_from_filename on its own
MaxWords == 4
\* largest max_retries handed to _request_with_retry
MaxRetries == 4
\* longest text handed to sanitize_text on its own
MaxDirty == 6
\* most texts handed to embed_batch on its own
MaxTexts == 3
\* largest batch_size of embed_batch and upsert_batch on their own
MaxBatch == 3
\* most entries handed to upsert_batch on its own
MaxEntries == 5
\* length of a sentence of a document of the file system
DocSentenceLen == 800
\* most sentences of a document of the file system
MaxSentences == 2

-----------------------------------------------------------------------------
(* Python built-ins on str and list *)

Min(S) == CHOOSE x \in S : \A y \in S : x <= y
Max(S) == CHOOSE x \in S : \A y \in S : x >= y
CeilDiv(a, b) == (a + b - 1) \div b

\* characters str.strip() removes and the regex class \s matches
Whitespace == {" ", "\n", "\t", "\r"}
\* the regex class [A-Z]
Capitals ==
    {"A", "B", "C", "D", "E", "F", "G", "H", "I", "J", "K", "L", "M",
     "N", "O", "P", "Q", "R", "S", "T", "U", "V", "W", "X", "Y", "Z"}
\* the characters texts are made of
Alphabet == {"a", "B", ".", " ", "\n"}

Texts == UNION {[1..n -> Alphabet] : n \in 0..MaxLen}

\* the characters of the longer texts of sentences
SentenceAlphabet == {"a", "B", ".", " "}
SentenceTexts == UNION {[1..n -> SentenceAlphabet] : n \in 0..MaxSentenceLen}

\* s.strip()
Strip(s) ==
    LET keep == {i \in 1..Len(s) : s[i] \notin Whitespace}
    IN  IF keep = {} THEN <<>> ELSE SubSeq(s, Min(keep), Max(keep))

\* a slice index as Python normalises it: negative counts from the end, then clamped
SliceIndex(i, n) ==
    IF i < 0 THEN (IF i + n < 0 THEN 0 ELSE i + n)
    ELSE (IF i > n THEN n ELSE i)

\* s[a:b] (0-based, end-exclusive, negative indices allowed)
PySlice(s, a, b) ==
    LET lo == SliceIndex(a, Len(s))
        hi == SliceIndex(b, Len(s))
    IN  IF lo >= hi THEN <<>> ELSE SubSeq(s, lo + 1, hi)

\* sep.join(parts)
RECURSIVE Join(_, _)
Join(parts, sep) ==
    IF parts = <<>> THEN <<>>
    ELSE IF Len(parts) = 1 THEN parts[1]
    ELSE parts[1] \o sep \o Join(Tail(parts), sep)

\* s.split(sep) for a non-empty sep, scanning from position i with piece `cur` open
RECURSIVE SplitFrom(_, _, _, _)
SplitFrom(s, sep, i, cur) ==
    IF i > Len(s) THEN <<cur>>
    ELSE IF i + Len(sep) - 1 <= Len(s) /\ SubSeq(s, i, i + Len(sep) - 1) = sep
         THEN <<cur>> \o SplitFrom(s, sep, i + Len(sep), <<>>)
         ELSE SplitFrom(s, sep, i + 1, Append(cur, s[i]))

PySplit(s, sep) == SplitFrom(s, sep, 1, <<>>)

\* [f(x) for x in list if x.strip()] with f = strip
RECURSIVE StripAll(_)
StripAll(list) ==
    IF list = <<>> THEN <<>>
    ELSE LET c == Strip(Head(list))
         IN  (IF c = <<>> THEN <<>> ELSE <<c>>) \o StripAll(Tail(list))

-----------------------------------------------------------------------------
(* FixedSizeChunker.chunk *)

\* the lookahead of the boundary search, text[search_start:end + 50]
LookAhead == 50

\* the sentence endings the boundary search tries, in order
SentenceEndings ==
    << <<".", " ">>, <<".", "\n">>, <<"!", " ">>, <<"!", "\n">>, <<"?", " ">>, <<"?", "\n">> >>

\* int(chunk_size * 0.2)
TailLen(size) == size \div 5

\* match.end() of every match re.finditer(pattern, search_text) yields
\* (the patterns are two distinct characters, so matches never overlap)
MatchEnds(pattern, search_text) ==
    {i + 1 : i \in {j \in 1..(Len(search_text) - 1) :
                        SubSeq(search_text, j, j + 1) = pattern}}

\* the first pattern of the list with a match, 0 when none has one
RECURSIVE FirstMatching(_, _)
FirstMatching(k, search_text) ==
    IF k > Len(SentenceEndings) THEN 0
    ELSE IF MatchEnds(SentenceEndings[k], search_text) # {} THEN k
    ELSE FirstMatching(k + 1, search_text)

\* `end` of one iteration of the while loop
WindowEnd(t, s, size) ==
    LET end0 == s + size
        search_start == end0 - TailLen(size)
        search_text == PySlice(t, search_start, end0 + LookAhead)
        k == FirstMatching(1, search_text)
    IN  IF end0 < Len(t) /\ k # 0
        THEN search_start + Max(MatchEnds(SentenceEndings[k], search_text))
        ELSE end0

\* below -StartFloor every iteration takes an empty slice, finds no match and
\* leaves start no larger: the model keeps start there
StartFloor(t, size) == Len(t) + size + LookAhead

\* the progress guard `if start <= chunks[-1] if chunks else 0`: Python reads it as
\* `(start <= chunks[-1]) if chunks else 0`; with a chunk in the list it compares an
\* int with a str and raises TypeError, without one its condition is 0
GuardRaises(cs) == cs # <<>>

FixedEnter ==
    /\ pc = "ready"
    /\ chunker.kind = "fixed"
    /\ IF Strip(text) = <<>>
       THEN pc' = "returned"
       ELSE pc' = "loop"
    /\ start' = 0
    /\ iter' = 0
    /\ chunks' = <<>>
    /\ UNCHANGED <<text, chunker, embedVars, storeVars, kbVars, restVars>>

\* one evaluation of `while start < text_length`: the body when it holds, the
\* return when it does not
FixedLoop ==
    /\ pc = "loop"
    /\ IF start < Len(text)
       THEN LET end == WindowEnd(text, start, chunker.chunk_size)
                chunk == Strip(PySlice(text, start, end))
                appended == IF chunk # <<>> THEN Append(chunks, chunk) ELSE chunks
                next == end - chunker.chunk_overlap
                floor == 0 - StartFloor(text, chunker.chunk_size)
            IN  /\ chunks' = appended
                /\ start' = IF next < floor THEN floor ELSE next
                /\ iter' = 1 - iter
                /\ pc' = IF GuardRaises(appended) THEN "raised" ELSE "loop"
       ELSE /\ pc' = "returned"
            /\ UNCHANGED <<start, iter, chunks>>
    /\ UNCHANGED <<text, chunker, embedVars, storeVars, kbVars, restVars>>

-----------------------------------------------------------------------------
(* SemanticChunker *)

\* the separators re.split(r'(?<=[.!?])\s+(?=[A-Z])', text) removes: the maximal
\* whitespace runs <<i, j>> that follow a terminator and precede a capital
RunEnd(t, i) ==
    CHOOSE j \in i..Len(t) :
        /\ \A m \in i..j : t[m] \in Whitespace
        /\ j = Len(t) \/ t[j + 1] \notin Whitespace

SentenceBreaks(t) ==
    {b \in {<<i, RunEnd(t, i)>> :
                i \in {k \in 2..Len(t) :
                          t[k] \in Whitespace /\ t[k - 1] \in {".", "!", "?"}}} :
        b[2] < Len(t) /\ t[b[2] + 1] \in Capitals}

\* the pieces of re.split, from position `from` on
RECURSIVE PiecesFrom(_, _)
PiecesFrom(t, from) ==
    LET later == {b \in SentenceBreaks(t) : b[1] >= from}
    IN  IF later = {} THEN <<SubSeq(t, from, Len(t))>>
        ELSE LET b == CHOOSE x \in later : \A y \in later : x[1] <= y[1]
             IN  <<SubSeq(t, from, b[1] - 1)>> \o PiecesFrom(t, b[2] + 1)

split_sentences(t) == StripAll(PiecesFrom(t, 1))

\* the comparison off by one: `>=` for `>`
ExceedsMaxOffByOne(current_size, sentence_size, max) == current_size + sentence_size >= max

\* `current_size + sentence_size > self.max_chunk_size`
ExceedsMax(current_size, sentence_size, max) == current_size + sentence_size > max

\* the for loop of SemanticChunker.chunk from sentence k on, and the final append
RECURSIVE SemanticLoop(_, _, _, _, _, _)
SemanticLoop(sentences, k, out, current_chunk, current_size, c) ==
    IF k > Len(sentences)
    THEN IF current_chunk # <<>> /\ Strip(Join(current_chunk, <<" ">>)) # <<>>
         THEN Append(out, Strip(Join(current_chunk, <<" ">>)))
         ELSE out
    ELSE LET sentence == sentences[k]
             chunk_text == Strip(Join(current_chunk, <<" ">>))
             emit == /\ ExceedsMax(current_size, Len(sentence), c.max_chunk_size)
                     /\ current_chunk # <<>>
                     /\ Len(chunk_text) >= c.min_chunk_size
         IN  IF emit
             THEN SemanticLoop(sentences, k + 1, Append(out, chunk_text),
                               <<sentence>>, Len(sentence), c)
             ELSE SemanticLoop(sentences, k + 1, out,
                               Append(current_chunk, sentence),
                               current_size + Len(sentence), c)

SemanticChunk(t, c) ==
    IF Strip(t) = <<>> THEN <<>>
    ELSE SemanticLoop(split_sentences(t), 1, <<>>, <<>>, 0, c)

SemanticCall ==
    /\ pc = "ready"
    /\ chunker.kind = "semantic"
    /\ chunks' = SemanticChunk(text, chunker)
    /\ pc' = "returned"
    /\ UNCHANGED <<text, chunker, start, iter, embedVars, storeVars, kbVars, restVars>>

-----------------------------------------------------------------------------
(* RecursiveChunker *)

\* the default of the `separators` parameter
DefaultSeparators == << <<"\n", "\n">>, <<"\n">>, <<".", " ">>, <<" ">>, <<>> >>

\* list(text)
Chars(t) == [i \in 1..Len(t) |-> <<t[i]>>]

\* the return without its strip and filter: `return chunks`
CleanedKeepAll(list) == list

\* the return of _recursive_split: [c.strip() for c in chunks if c.strip()]
Cleaned(list) == StripAll(list)

RECURSIVE recursive_split(_, _, _)
RECURSIVE MergeLoop(_, _, _, _, _, _, _)

\* "save current chunk" without the recursion: the merged chunk kept whole
SaveChunkWhole(out, current_chunk, separator, remaining, size) ==
    IF current_chunk = <<>> THEN out
    ELSE Append(out, Join(current_chunk, separator))

\* "save current chunk": recurse with the remaining separators when too large
SaveChunk(out, current_chunk, separator, remaining, size) ==
    IF current_chunk = <<>> THEN out
    ELSE LET chunk_text == Join(current_chunk, separator)
         IN  IF Len(chunk_text) > size /\ remaining # <<>>
             THEN out \o recursive_split(chunk_text, remaining, size)
             ELSE Append(out, chunk_text)

\* the for loop over splits from split k on, and the final save
MergeLoop(splits, k, out, current_chunk, current_size, seps, size) ==
    LET separator == Head(seps)
        remaining == Tail(seps)
    IN  IF k > Len(splits)
        THEN SaveChunk(out, current_chunk, separator, remaining, size)
        ELSE LET split == splits[k]
             IN  IF current_size + Len(split) <= size
                 THEN MergeLoop(splits, k + 1, out, Append(current_chunk, split),
                                current_size + Len(split) + Len(separator), seps, size)
                 ELSE MergeLoop(splits, k + 1,
                                SaveChunk(out, current_chunk, separator, remaining, size),
                                <<split>>, Len(split), seps, size)

recursive_split(t, separators, size) ==
    IF separators = <<>>
    THEN (IF Strip(t) # <<>> THEN <<t>> ELSE <<>>)
    ELSE LET separator == Head(separators)
             splits == IF separator # <<>> THEN PySplit(t, separator) ELSE Chars(t)
         IN  Cleaned(MergeLoop(splits, 1, <<>>, <<>>, 0, separators, size))

RecursiveChunk(t, c) ==
    IF Strip(t) = <<>> THEN <<>>
    ELSE recursive_split(t, c.separators, c.chunk_size)

RecursiveCall ==
    /\ pc = "ready"
    /\ chunker.kind = "recursive"
    /\ chunks' = RecursiveChunk(text, chunker)
    /\ pc' = "returned"
    /\ UNCHANGED <<text, chunker, start, iter, embedVars, storeVars, kbVars, restVars>>

-----------------------------------------------------------------------------
(* OllamaEmbeddings *)

\* self.dimension
dimension == 768

\* the default of embed_batch's batch_size parameter
DefaultEmbedBatch == 32

\* a vector whose components all have one value, given by its length and that value
Uniform(length, x) == [length |-> length, component |-> x]

\* [0.0] * self.dimension
ZeroVector == Uniform(dimension, 0)

\* what the embedding service answers to one request: an error (connection failure,
\* timeout, HTTP error status) or a vector, of any length
Failure == [ok |-> FALSE, embedding |-> Uniform(0, 0)]
Success(v) == [ok |-> TRUE, embedding |-> v]
ServiceVectors ==
    {Uniform(dimension, 1), Uniform(dimension, 2), Uniform(dimension - 1, 1)}
EmbedResponses == {Failure} \cup {Success(v) : v \in ServiceVectors}

\* the texts handed to embed_batch on its own
Prompts == {<<"a">>, <<"B">>}

\* embed_text: the service's vector whatever its length (a mismatch is only logged),
\* an exception when the request failed
embed_text(response) ==
    IF response.ok
    THEN [raised |-> FALSE, value |-> response.embedding]
    ELSE [raised |-> TRUE, value |-> Uniform(0, 0)]

\* the inner loop body without the placeholder: a failed text leaves no vector
EmbedOneSkipping(acc, t, responses) ==
    LET response == responses[Len(acc.requests) + 1]
        r == embed_text(response)
    IN  [embeddings |-> IF r.raised THEN acc.embeddings ELSE Append(acc.embeddings, r.value),
         requests |-> Append(acc.requests, [prompt |-> t, response |-> response])]

\* the body of `for text in batch`: one request, its vector or the zero vector appended
EmbedOne(acc, t, responses) ==
    LET response == responses[Len(acc.requests) + 1]
        r == embed_text(response)
    IN  [embeddings |-> Append(acc.embeddings, IF r.raised THEN ZeroVector ELSE r.value),
         requests |-> Append(acc.requests, [prompt |-> t, response |-> response])]

\* for text in batch
RECURSIVE EmbedInner(_, _, _, _)
EmbedInner(batch, k, acc, responses) ==
    IF k > Len(batch) THEN acc
    ELSE EmbedInner(batch, k + 1, EmbedOne(acc, batch[k], responses), responses)

\* for i in range(0, total, batch_size)
RECURSIVE EmbedOuter(_, _, _, _, _)
EmbedOuter(texts, batch_size, i, acc, responses) ==
    IF i >= Len(texts) THEN acc
    ELSE EmbedOuter(texts, batch_size, i + batch_size,
                    EmbedInner(PySlice(texts, i, i + batch_size), 1, acc, responses),
                    responses)

\* embed_batch(texts, batch_size), the service answering its k-th request with
\* responses[k]: the returned list and the requests sent
embed_batch(texts, batch_size, responses) ==
    EmbedOuter(texts, batch_size, 0, [embeddings |-> <<>>, requests |-> <<>>], responses)

EmbedBatchCall ==
    /\ embed_out.status = "idle"
    /\ \E n \in 0..MaxTexts :
         \E texts \in [1..n -> Prompts], batch_size \in 1..MaxBatch,
            responses \in [1..n -> EmbedResponses] :
            \E run \in {embed_batch(texts, batch_size, responses)} :
                /\ requests' = run.requests
                /\ embed_out' = [status |-> "returned", texts |-> texts,
                                 batch_size |-> batch_size, value |-> run.embeddings]
    /\ UNCHANGED <<chunkVars, storeVars, kbVars, restVars>>

-----------------------------------------------------------------------------
(* OllamaLLM._request_with_retry *)

\* the defaults of max_retries and retry_delay
DefaultMaxRetries == 3
DefaultRetryDelay == 2

\* what one requests.post with raise_for_status and response.json() ends in: a JSON
\* body, a requests.exceptions.RequestException (connection error, timeout, HTTP
\* error status), or an exception of another class
Bodies == {"body1", "body2"}
RequestExceptions == {"ConnectionError", "Timeout", "HTTPError"}
HttpOutcomes ==
    [kind : {"json"}, value : Bodies]
    \cup [kind : {"RequestException"}, value : RequestExceptions]
    \cup [kind : {"Exception"}, value : {"other"}]

\* a handler that sleeps after every failed attempt
SleepsAlways(attempt, max_retries) == TRUE

\* if attempt < max_retries - 1: time.sleep(retry_delay)
SleepsAfter(attempt, max_retries) == attempt < max_retries - 1

\* the call enters `for attempt in range(max_retries)`; with no attempt to make it
\* falls through to the final raise
RetryCall ==
    /\ llm.status = "idle"
    /\ \E max_retries \in 0..MaxRetries, retry_delay \in {0, DefaultRetryDelay} :
         llm' = IF max_retries = 0
                THEN [status |-> "raised", max_retries |-> max_retries,
                      retry_delay |-> retry_delay, attempt |-> 0, events |-> <<>>,
                      result |-> "Unexpected error in retry logic"]
                ELSE [status |-> "running", max_retries |-> max_retries,
                      retry_delay |-> retry_delay, attempt |-> 0, events |-> <<>>,
                      result |-> ""]
    /\ UNCHANGED <<chunkVars, embedVars, storeVars, kbVars, meta_out, script, clean_out>>

\* one iteration of the loop: the request; its JSON body returned, or the
\* RequestException caught, followed by the sleep or by the re-raise after the last
\* attempt, or another exception propagating. llm.events records the requests and
\* the sleeps in the order they happen.
RetryAttempt ==
    /\ llm.status = "running"
    /\ \E outcome \in HttpOutcomes :
         LET request == [kind |-> "request", outcome |-> outcome]
             sleep == [kind |-> "sleep", seconds |-> llm.retry_delay]
         IN  llm' =
                IF outcome.kind = "json"
                THEN [llm EXCEPT !.status = "returned", !.result = outcome.value,
                                 !.events = Append(@, request)]
                ELSE IF outcome.kind = "Exception"
                THEN [llm EXCEPT !.status = "raised", !.result = outcome.value,
                                 !.events = Append(@, request)]
                ELSE IF SleepsAfter(llm.attempt, llm.max_retries)
                THEN [llm EXCEPT !.attempt = @ + 1,
                                 !.events = Append(Append(@, request), sleep)]
                ELSE [llm EXCEPT !.status = "raised", !.result = outcome.value,
                                 !.events = Append(@, request)]
    /\ UNCHANGED <<chunkVars, embedVars, storeVars, kbVars, meta_out, script, clean_out>>

-----------------------------------------------------------------------------
(* PineconeVectorStore *)

\* the default of upsert_batch's batch_size parameter
DefaultBatchSize == 100

\* {} and None alike: `if metadata_override`, `elif filter` take both as false
EmptyDict == <<>>

\* how the service answers an upsert: it rejects the call, or it writes the entries and
\* acknowledges a count (all of them, or one less)
UpsertOutcomes ==
    {[rejected |-> TRUE, unacknowledged |-> 0],
     [rejected |-> FALSE, unacknowledged |-> 0],
     [rejected |-> FALSE, unacknowledged |-> 1]}

\* response['upserted_count']
Acknowledged(data, outcome) ==
    IF Len(data) > outcome.unacknowledged THEN Len(data) - outcome.unacknowledged ELSE 0

\* the service's upsert: each entry is stored under its id, replacing an entry with
\* the same id
RemoteUpsert(idx, data) ==
    LET written == {data[k].id : k \in DOMAIN data}
    IN  [id \in DOMAIN idx \cup written |->
            IF id \in written
            THEN LET last == Max({k \in DOMAIN data : data[k].id = id})
                 IN  [values |-> data[last].values, metadata |-> data[last].metadata]
            ELSE idx[id]]

\* the dicts built from zip(ids, vectors, metadata)
Zip(ids, vectors, metadata) ==
    [k \in 1..Min({Len(ids), Len(vectors), Len(metadata)}) |->
        [id |-> ids[k], values |-> vectors[k], metadata |-> metadata[k]]]

\* upsert on the index content idx, after the remote calls `log`: the index content
\* and the remote calls afterwards, and the count returned or the exception raised
upsert(idx, log, vectors, ids, metadata, outcome) ==
    IF ~connected
    THEN [index |-> idx, calls |-> log, raised |-> TRUE,
          error |-> "Index not initialized", upserted_count |-> 0]
    ELSE IF Len(vectors) # Len(ids) \/ Len(vectors) # Len(metadata)
    THEN [index |-> idx, calls |-> log, raised |-> TRUE,
          error |-> "same length", upserted_count |-> 0]
    ELSE LET data == Zip(ids, vectors, metadata)
         IN  IF outcome.rejected
             THEN [index |-> idx,
                   calls |-> Append(log, [kind |-> "upsert", vectors |-> data,
                                          rejected |-> TRUE, upserted_count |-> 0]),
                   raised |-> TRUE, error |-> "rejected", upserted_count |-> 0]
             ELSE [index |-> RemoteUpsert(idx, data),
                   calls |-> Append(log, [kind |-> "upsert", vectors |-> data,
                                          rejected |-> FALSE,
                                          upserted_count |-> Acknowledged(data, outcome)]),
                   raised |-> FALSE, error |-> "",
                   upserted_count |-> Acknowledged(data, outcome)]

\* the total counting what was sent instead of what was acknowledged
AddSent(total_upserted, result) ==
    total_upserted + Len(result.calls[Len(result.calls)].vectors)

\* total_upserted += result['upserted_count']
AddCount(total_upserted, result) == total_upserted + result.upserted_count

\* a loop that catches the exception of a batch and goes on
Swallows(result) == FALSE

\* upsert_batch calls upsert outside any try: an exception of a batch ends the loop
\* and the call
Propagates(result) == result.raised

\* for i in range(0, total, batch_size)
RECURSIVE UpsertLoop(_, _, _, _, _, _, _)
UpsertLoop(vectors, ids, metadata, batch_size, i, acc, outcomes) ==
    IF i >= Len(vectors) THEN acc
    ELSE LET result == upsert(acc.index, acc.calls,
                              PySlice(vectors, i, i + batch_size),
                              PySlice(ids, i, i + batch_size),
                              PySlice(metadata, i, i + batch_size),
                              outcomes[Len(acc.calls) + 1])
         IN  IF Propagates(result) THEN result
             ELSE UpsertLoop(vectors, ids, metadata, batch_size, i + batch_size,
                             [index |-> result.index, calls |-> result.calls,
                              raised |-> result.raised, error |-> result.error,
                              upserted_count |-> AddCount(acc.upserted_count, result)],
                             outcomes)

\* upsert_batch on the index content idx, the service answering its k-th upsert with
\* outcomes[k]
upsert_batch(idx, vectors, ids, metadata, batch_size, outcomes) ==
    UpsertLoop(vectors, ids, metadata, batch_size, 0,
               [index |-> idx, calls |-> <<>>, raised |-> FALSE, error |-> "",
                upserted_count |-> 0],
               outcomes)

\* an entry matches a metadata filter when it carries every key of the filter with
\* the filter's value
Matches(meta, filter) ==
    \A k \in DOMAIN filter : k \in DOMAIN meta /\ meta[k] = filter[k]

\* a delete that looks at ids before delete_all
DeleteIdsFirst(idx, ids, filter, delete_all, rejected) ==
    IF ~connected
    THEN [index |-> idx, calls |-> <<>>, raised |-> TRUE, error |-> "Index not initialized"]
    ELSE IF ~delete_all /\ ids = <<>> /\ filter = EmptyDict
    THEN [index |-> idx, calls |-> <<>>, raised |-> FALSE, error |-> ""]
    ELSE LET call == [kind |-> "delete", delete_all |-> delete_all /\ ids = <<>>,
                      ids |-> ids,
                      filter |-> IF delete_all \/ ids # <<>> THEN EmptyDict ELSE filter,
                      rejected |-> rejected]
             gone == IF ids # <<>> THEN {ids[k] : k \in DOMAIN ids}
                     ELSE IF delete_all THEN DOMAIN idx
                     ELSE {id \in DOMAIN idx : Matches(idx[id].metadata, filter)}
         IN  IF rejected
             THEN [index |-> idx, calls |-> <<call>>, raised |-> TRUE, error |-> "rejected"]
             ELSE [index |-> [id \in DOMAIN idx \ gone |-> idx[id]], calls |-> <<call>>,
                   raised |-> FALSE, error |-> ""]

\* delete: delete_all before ids before filter, a warning when none is given
delete(idx, ids, filter, delete_all, rejected) ==
    IF ~connected
    THEN [index |-> idx, calls |-> <<>>, raised |-> TRUE, error |-> "Index not initialized"]
    ELSE IF ~delete_all /\ ids = <<>> /\ filter = EmptyDict
    THEN [index |-> idx, calls |-> <<>>, raised |-> FALSE, error |-> ""]
    ELSE LET call == [kind |-> "delete", delete_all |-> delete_all,
                      ids |-> IF delete_all THEN <<>> ELSE ids,
                      filter |-> IF delete_all \/ ids # <<>> THEN EmptyDict ELSE filter,
                      rejected |-> rejected]
             gone == IF delete_all THEN DOMAIN idx
                     ELSE IF ids # <<>> THEN {ids[k] : k \in DOMAIN ids}
                     ELSE {id \in DOMAIN idx : Matches(idx[id].metadata, filter)}
         IN  IF rejected
             THEN [index |-> idx, calls |-> <<call>>, raised |-> TRUE, error |-> "rejected"]
             ELSE [index |-> [id \in DOMAIN idx \ gone |-> idx[id]], calls |-> <<call>>,
                   raised |-> FALSE, error |-> ""]

\* a create_index that does not consult the list of indexes
CreatesUnchecked(listed) == <<[kind |-> "create_index"]>>

\* the remote calls of create_index after list_indexes: the create when the index
\* name is not in the list
Creates(listed) == IF listed THEN <<>> ELSE <<[kind |-> "create_index"]>>

\* create_index: the remote create when the service does not list the index, then
\* self.index is set
CreateIndex ==
    /\ calls' = Creates(exists)
    /\ exists' = TRUE
    /\ connected' = TRUE
    /\ store_out' = [op |-> "create_index", status |-> "returned"]
    /\ UNCHANGED <<chunkVars, embedVars, index, kbVars, restVars>>

\* the arguments of an upsert_batch call on its own: entry k has id <<"id", k>>, a
\* vector of its own and metadata of its own
EntryIds(n) == [k \in 1..n |-> <<"id", k>>]
EntryVectors(n) == [k \in 1..n |-> Uniform(1, k)]
EntryMetadata(n) == [k \in 1..n |-> ("n" :> <<"int", k>>)]
Shorter(n, d) == IF n > d THEN n - d ELSE 0

\* a call of upsert_batch on its own, after no operation or after create_index
UpsertBatchCall ==
    /\ store_out.op \in {"none", "create_index"}
    /\ \E n \in 0..MaxEntries, batch_size \in 1..MaxBatch,
          short_vectors \in 0..1, short_ids \in 0..1, short_metadata \in 0..1 :
        \E outcomes \in [1..CeilDiv(n, batch_size) -> UpsertOutcomes],
           vectors \in {EntryVectors(Shorter(n, short_vectors))},
           ids \in {EntryIds(Shorter(n, short_ids))},
           metadata \in {EntryMetadata(Shorter(n, short_metadata))} :
          \E out \in {upsert_batch(index, vectors, ids, metadata, batch_size, outcomes)} :
              /\ index' = out.index
              /\ calls' = out.calls
              /\ store_out' = [op |-> "upsert_batch",
                               status |-> IF out.raised THEN "raised" ELSE "returned",
                               error |-> out.error,
                               result |-> IF out.raised THEN <<>>
                                          ELSE <<out.upserted_count>>,
                               vectors |-> vectors, ids |-> ids, metadata |-> metadata,
                               batch_size |-> batch_size, before |-> index]
    /\ UNCHANGED <<chunkVars, embedVars, exists, connected, kbVars, restVars>>

\* a call of upsert on its own, after no operation or after create_index
UpsertCall ==
    /\ store_out.op \in {"none", "create_index"}
    /\ \E n \in 0..MaxBatch, short_ids \in 0..1, outcome \in UpsertOutcomes :
         \E vectors \in {EntryVectors(n)}, ids \in {EntryIds(Shorter(n, short_ids))},
            metadata \in {EntryMetadata(n)} :
         \E out \in {upsert(index, <<>>, vectors, ids, metadata, outcome)} :
             /\ index' = out.index
             /\ calls' = out.calls
             /\ store_out' = [op |-> "upsert",
                              status |-> IF out.raised THEN "raised" ELSE "returned",
                              error |-> out.error,
                              result |-> IF out.raised THEN <<>>
                                         ELSE <<out.upserted_count>>,
                              vectors |-> vectors, ids |-> ids, metadata |-> metadata,
                              before |-> index]
    /\ UNCHANGED <<chunkVars, embedVars, exists, connected, kbVars, restVars>>

\* the selectors of a delete call on its own: ids (None and [] alike), a metadata
\* filter (None and {} alike)
DeleteIds == {<<>>, <<<<"id", 1>>>>, <<<<"id", 2>>, <<"id", 3>>>>}
DeleteFilters == {EmptyDict, ("n" :> <<"int", 2>>)}

\* a call of delete on its own, after no operation or after create_index
DeleteCall ==
    /\ store_out.op \in {"none", "create_index"}
    /\ \E ids \in DeleteIds, filter \in DeleteFilters, delete_all \in BOOLEAN,
          rejected \in BOOLEAN :
         \E out \in {delete(index, ids, filter, delete_all, rejected)} :
             /\ index' = out.index
             /\ calls' = out.calls
             /\ store_out' = [op |-> "delete",
                              status |-> IF out.raised THEN "raised" ELSE "returned",
                              error |-> out.error,
                              ids |-> ids, filter |-> filter, delete_all |-> delete_all,
                              before |-> index]
    /\ UNCHANGED <<chunkVars, embedVars, exists, connected, kbVars, restVars>>

\* the answers the service can give to a query: top_k of the entries that match the
\* filter (all of them when there are fewer), in the order of the scores it gives
\* them; the scores themselves are left out
Rankings(idx, top_k, filter) ==
    LET matching == {id \in DOMAIN idx : Matches(idx[id].metadata, filter)}
        k == Min({top_k, Cardinality(matching)})
    IN  {r \in [1..k -> matching] : \A i, j \in 1..k : i # j => r[i] # r[j]}

\* query: the matches of the response as dicts of id and metadata
query(idx, top_k, filter, rejected, ranking) ==
    IF ~connected
    THEN [calls |-> <<>>, raised |-> TRUE, error |-> "Index not initialized",
          matches |-> <<>>]
    ELSE LET call == [kind |-> "query", top_k |-> top_k, filter |-> filter,
                      rejected |-> rejected]
         IN  IF rejected
             THEN [calls |-> <<call>>, raised |-> TRUE, error |-> "rejected",
                   matches |-> <<>>]
             ELSE [calls |-> <<call>>, raised |-> FALSE, error |-> "",
                   matches |-> [i \in DOMAIN ranking |->
                                   [id |-> ranking[i],
                                    metadata |-> idx[ranking[i]].metadata]]]

\* a call of query on its own, after no operation or after create_index
QueryCall ==
    /\ store_out.op \in {"none", "create_index"}
    /\ \E top_k \in {1, 2}, filter \in DeleteFilters, rejected \in BOOLEAN :
         \E ranking \in Rankings(index, top_k, filter) :
         \E out \in {query(index, top_k, filter, rejected, ranking)} :
             /\ calls' = out.calls
             /\ store_out' = [op |-> "query",
                              status |-> IF out.raised THEN "raised" ELSE "returned",
                              error |-> out.error, result |-> out.matches,
                              top_k |-> top_k, filter |-> filter]
    /\ UNCHANGED <<chunkVars, embedVars, exists, connected, index, kbVars, restVars>>

\* get_stats: the statistics the service describes, here the number of entries
get_stats(idx, rejected) ==
    IF ~connected
    THEN [calls |-> <<>>, raised |-> TRUE, error |-> "Index not initialized",
          stats |-> <<>>]
    ELSE IF rejected
    THEN [calls |-> <<[kind |-> "describe_index_stats", rejected |-> TRUE]>>,
          raised |-> TRUE, error |-> "rejected", stats |-> <<>>]
    ELSE [calls |-> <<[kind |-> "describe_index_stats", rejected |-> FALSE]>>,
          raised |-> FALSE, error |-> "",
          stats |-> <<[total_vector_count |-> Cardinality(DOMAIN idx)]>>]

\* a call of get_stats on its own, after no operation or after create_index
GetStatsCall ==
    /\ store_out.op \in {"none", "create_index"}
    /\ \E rejected \in BOOLEAN :
         \E out \in {get_stats(index, rejected)} :
             /\ calls' = out.calls
             /\ store_out' = [op |-> "get_stats",
                              status |-> IF out.raised THEN "raised" ELSE "returned",
                              error |-> out.error, result |-> out.stats]
    /\ UNCHANGED <<chunkVars, embedVars, exists, connected, index, kbVars, restVars>>

-----------------------------------------------------------------------------
(* validators.py and document_processor.py *)

\* a metadata value: None, a str or an int
None == <<"None">>
StrVal(s) == <<"str", s>>
IntVal(n) == <<"int", n>>

\* dict.update: the keys of e replace those of d
Update(d, e) == e @@ d

UpperCase ==
    <<"A", "B", "C", "D", "E", "F", "G", "H", "I", "J", "K", "L", "M",
      "N", "O", "P", "Q", "R", "S", "T", "U", "V", "W", "X", "Y", "Z">>
LowerCase ==
    <<"a", "b", "c", "d", "e", "f", "g", "h", "i", "j", "k", "l", "m",
      "n", "o", "p", "q", "r", "s", "t", "u", "v", "w", "x", "y", "z">>
DigitChars == <<"0", "1", "2", "3", "4", "5", "6", "7", "8", "9">>
IsDigit(c) == \E d \in DOMAIN DigitChars : DigitChars[d] = c

\* str.lower(), which is also how re.IGNORECASE compares
Lower(s) ==
    [i \in 1..Len(s) |->
        IF s[i] \in Capitals
        THEN LowerCase[CHOOSE k \in DOMAIN UpperCase : UpperCase[k] = s[i]]
        ELSE s[i]]

\* str(n) of a natural number
RECURSIVE Digits(_)
Digits(n) ==
    IF n < 10 THEN <<DigitChars[n + 1]>>
    ELSE Digits(n \div 10) \o <<DigitChars[(n % 10) + 1]>>

\* the elements of t at the indices in keep, in order
Keep(t, keep) ==
    LET marked == [i \in 1..Len(t) |-> <<i \in keep, t[i]>>]
        kept == SelectSeq(marked, LAMBDA m : m[1])
    IN  [i \in 1..Len(kept) |-> kept[i][2]]

\* the characters of [\x00-\x08\x0B-\x0C\x0E-\x1F\x7F] a text of the model can hold
ControlChars == {"\f"}
Blanks == {" ", "\t"}

\* index i is within leading whitespace of its line
LeadsLine(t, i) ==
    \E s \in 0..(i - 1) :
        /\ s = 0 \/ t[s] = "\n"
        /\ \A j \in (s + 1)..i : t[j] \in Whitespace \ {"\n"}

\* index i is within trailing whitespace of its line
TrailsLine(t, i) ==
    \E e \in (i + 1)..(Len(t) + 1) :
        /\ e = Len(t) + 1 \/ t[e] = "\n"
        /\ \A j \in i..(e - 1) : t[j] \in Whitespace \ {"\n"}

\* sanitize_text: control characters removed, runs of spaces and tabs made one space,
\* runs of three or more newlines made two, each line stripped, the whole stripped
sanitize_text(t) ==
    LET no_control == SelectSeq(t, LAMBDA c : c \notin ControlChars)
        single == Keep(no_control,
                       {i \in 1..Len(no_control) :
                           ~(/\ no_control[i] \in Blanks
                             /\ i > 1
                             /\ no_control[i - 1] \in Blanks)})
        spaced == [i \in 1..Len(single) |-> IF single[i] \in Blanks THEN " " ELSE single[i]]
        two == Keep(spaced,
                    {i \in 1..Len(spaced) :
                        ~(/\ spaced[i] = "\n"
                          /\ i > 2
                          /\ spaced[i - 1] = "\n"
                          /\ spaced[i - 2] = "\n")})
        lines == Keep(two,
                      {i \in 1..Len(two) :
                          \/ two[i] \notin Whitespace \ {"\n"}
                          \/ ~(LeadsLine(two, i) \/ TrailsLine(two, i))})
    IN  Strip(lines)

\* the texts handed to sanitize_text on its own: a letter, the blanks, the newline, a
\* control character the pattern names (form feed) and one it leaves out (carriage
\* return)
DirtyAlphabet == {"a", " ", "\t", "\n", "\r", "\f"}
DirtyTexts == UNION {[1..n -> DirtyAlphabet] : n \in 0..MaxDirty}

\* a call of sanitize_text
SanitizeCall ==
    /\ clean_out.status = "idle"
    /\ \E t \in DirtyTexts :
         clean_out' = [status |-> "returned", text |-> t, value |-> sanitize_text(t)]
    /\ UNCHANGED <<chunkVars, embedVars, storeVars, kbVars, meta_out, llm, script>>

TreatyWords ==
    {<<"t", "r", "e", "a", "t", "y">>,
     <<"a", "g", "r", "e", "e", "m", "e", "n", "t">>,
     <<"c", "o", "n", "v", "e", "n", "t", "i", "o", "n">>}
PolicyWords ==
    {<<"p", "o", "l", "i", "c", "y">>,
     <<"s", "t", "r", "a", "t", "e", "g", "y">>,
     <<"f", "r", "a", "m", "e", "w", "o", "r", "k">>}
StudyWords ==
    {<<"f", "e", "a", "s", "i", "b", "i", "l", "i", "t", "y">>,
     <<"s", "t", "u", "d", "y">>,
     <<"a", "n", "a", "l", "y", "s", "i", "s">>}
MineralWords ==
    {<<"m", "i", "n", "e", "r", "a", "l">>,
     <<"m", "i", "n", "i", "n", "g">>,
     <<"e", "x", "t", "r", "a", "c", "t", "i", "v", "e">>}
EnergyWords ==
    {<<"e", "n", "e", "r", "g", "y">>,
     <<"p", "o", "w", "e", "r">>,
     <<"e", "l", "e", "c", "t", "r", "i", "c", "i", "t", "y">>,
     <<"r", "e", "n", "e", "w", "a", "b", "l", "e">>}
AgricultureWords ==
    {<<"a", "g", "r", "i", "c", "u", "l", "t", "u", "r", "e">>,
     <<"a", "g", "r", "i">>,
     <<"f", "a", "r", "m", "i", "n", "g">>}

\* re.search(r"(w1|w2|...)", filename, re.IGNORECASE)
Search(words, filename) ==
    LET lowered == Lower(filename)
    IN  \E w \in words :
            \E i \in 1..(Len(filename) - Len(w) + 1) :
                SubSeq(lowered, i, i + Len(w) - 1) = w

\* the start indices of the matches of \d{4}-\d{2}-\d{2} and of \d{4}
FullDates(f) ==
    {i \in 1..(Len(f) - 9) :
        /\ \A k \in {0, 1, 2, 3, 5, 6, 8, 9} : IsDigit(f[i + k])
        /\ f[i + 4] = "-"
        /\ f[i + 7] = "-"}
Years(f) == {i \in 1..(Len(f) - 3) : \A k \in 0..3 : IsDigit(f[i + k])}

extract_metadata_from_filename(filename) ==
    [k \in {"document_type", "sector", "date"} |->
        IF k = "document_type"
        THEN (IF Search(TreatyWords, filename)
              THEN StrVal(<<"t", "r", "e", "a", "t", "y">>)
              ELSE IF Search(PolicyWords, filename)
              THEN StrVal(<<"p", "o", "l", "i", "c", "y">>)
              ELSE IF Search(StudyWords, filename)
              THEN StrVal(<<"s", "t", "u", "d", "y">>)
              ELSE None)
        ELSE IF k = "sector"
        THEN (IF Search(MineralWords, filename)
              THEN StrVal(<<"m", "i", "n", "e", "r", "a", "l", "s">>)
              ELSE IF Search(EnergyWords, filename)
              THEN StrVal(<<"e", "n", "e", "r", "g", "y">>)
              ELSE IF Search(AgricultureWords, filename)
              THEN StrVal(<<"a", "g", "r", "i", "c", "u", "l", "t", "u", "r", "e">>)
              ELSE None)
        ELSE (IF FullDates(filename) # {}
              THEN StrVal(SubSeq(filename, Min(FullDates(filename)),
                              Min(FullDates(filename)) + 9))
              ELSE IF Years(filename) # {}
              THEN StrVal(SubSeq(filename, Min(Years(filename)), Min(Years(filename)) + 3))
              ELSE None)]

\* the file names handed to extract_metadata_from_filename on its own: words joined
\* by underscores, with the suffix .txt
NameWords ==
    {<<"E", "C", "O", "W", "A", "S">>, <<"M", "i", "n", "i", "n", "g">>,
     <<"V", "i", "s", "i", "o", "n">>, <<"2", "0", "2", "5">>,
     <<"T", "r", "e", "a", "t", "y">>,
     <<"2", "0", "2", "4", "-", "0", "3", "-", "0", "1">>}
FileName(words) == Join(words, <<"_">>) \o <<".", "t", "x", "t">>

\* a call of extract_metadata_from_filename
ExtractMetadataCall ==
    /\ meta_out.status = "idle"
    /\ \E n \in 1..MaxWords :
         \E words \in [1..n -> NameWords] :
             meta_out' = [status |-> "returned", filename |-> FileName(words),
                          value |-> extract_metadata_from_filename(FileName(words))]
    /\ UNCHANGED <<chunkVars, embedVars, storeVars, kbVars, llm, script, clean_out>>

\* Path.name and Path.suffix of a path given by its str()
Name(p) ==
    LET slashes == {i \in 1..Len(p) : p[i] = "/"}
    IN  IF slashes = {} THEN p ELSE SubSeq(p, Max(slashes) + 1, Len(p))
Suffix(p) ==
    LET name == Name(p)
        dots == {i \in 1..Len(name) : name[i] = "."}
    IN  IF dots = {} \/ Max(dots) = 1 \/ Max(dots) = Len(name) THEN <<>>
        ELSE SubSeq(name, Max(dots), Len(name))

\* str.lstrip('.')
LStripDots(s) ==
    LET rest == {i \in 1..Len(s) : s[i] # "."}
    IN  IF rest = {} THEN <<>> ELSE SubSeq(s, Min(rest), Len(s))

\* the documents of the file system: a sentence, and texts of several sentences
Sentence ==
    [i \in 1..DocSentenceLen |-> IF i = 1 THEN "A" ELSE IF i = DocSentenceLen THEN "." ELSE "a"]
DocText(k) == Join([i \in 1..k |-> Sentence], <<" ">>)
Blank == <<" ", "\n">>
Documents == <<<<>>, Blank>> \o [k \in 1..MaxSentences |-> DocText(k)]

\* validate_file_path on the state of the file: it exists and is not empty
validate_file_path(f) == f.exists /\ Len(Documents[f.content]) > 0

\* the formats of the TXTProcessor and of the DOCXProcessor
TextFormats ==
    {<<"t", "x", "t">>, <<"m", "d">>, <<"m", "a", "r", "k", "d", "o", "w", "n">>}
DocxFormats == {<<"d", "o", "c", "x">>}

-----------------------------------------------------------------------------
(* KnowledgeBase *)

\* the defaults of SemanticChunker, which KnowledgeBase.__init__ builds
DefaultMaxChunkSize == 1500
DefaultMinChunkSize == 500
KBChunker ==
    [kind |-> "semantic", max_chunk_size |-> DefaultMaxChunkSize,
     min_chunk_size |-> DefaultMinChunkSize]

\* the length of the content preview stored with a chunk
PreviewLen == 500

PathA == <<"a", ".", "t", "x", "t">>
PathB == <<"b", ".", "m", "d">>
PathC == <<"p", "o", "l", "i", "c", "y", ".", "d", "o", "c", "x">>
PathD == <<"d", ".", "c", "s", "v">>
Paths == {PathA, PathB, PathC, PathD}

\* a path without file, and a file: the place of its text in Documents, whether its
\* extractor can open it (a damaged .docx makes Document() raise) and the title in
\* its document properties. The size of a file is taken to be the length of its text.
NoFile == [exists |-> FALSE, content |-> 1, damaged |-> FALSE, title |-> <<>>]
File(d) == [exists |-> TRUE, content |-> d, damaged |-> FALSE, title |-> <<>>]
Docx(d, damaged) == [exists |-> TRUE, content |-> d, damaged |-> damaged, title |-> <<"T">>]

\* the file systems the knowledge base runs on: b.md and d.csv hold one sentence;
\* a.txt is missing or holds any document and policy.docx is missing, or a.txt is
\* missing and policy.docx holds one sentence, well-formed or damaged
FileSystems ==
    {fs \in [Paths -> {NoFile} \cup {File(d) : d \in DOMAIN Documents}
                       \cup {Docx(3, damaged) : damaged \in BOOLEAN}] :
        /\ fs[PathB] = File(3)
        /\ fs[PathD] = File(3)
        /\ fs[PathA] \in {NoFile} \cup {File(d) : d \in DOMAIN Documents}
        /\ fs[PathC] \in {NoFile} \cup {Docx(3, damaged) : damaged \in BOOLEAN}
        /\ fs[PathA] = NoFile \/ fs[PathC] = NoFile}

\* metadata_override: None, a dict that names another source, or a dict with a
\* per-chunk key, a filename-derived key, a document property and a None value
Overrides ==
    {EmptyDict,
     ("source" :> StrVal(PathB)),
     ("chunk_index" :> IntVal(7)) @@ ("document_type" :> StrVal(<<"x">>))
     @@ ("title" :> StrVal(<<"X">>)) @@ ("sector" :> None)}

\* datetime.now() at the calls
Clock == {1}
isoformat(now) == <<"T">> \o Digits(now)

\* the embedding service as the knowledge base meets it
KBResponses == {Failure, Success(Uniform(dimension, 1))}

\* the sanitized text of each document (TXTProcessor.process)
Processed == [d \in DOMAIN Documents |-> sanitize_text(Documents[d])]

\* self.chunker.chunk(content) of each sanitized text
KBChunks == [d \in DOMAIN Documents |-> SemanticChunk(Processed[d], KBChunker)]

\* the metadata DOCXProcessor.process reads from the document properties
DocxMetadata(f) ==
    ("title" :> StrVal(f.title)) @@ ("author" :> StrVal(<<>>))
    @@ ("subject" :> StrVal(<<>>)) @@ ("created" :> StrVal(<<>>))

\* process_document: None (ok = FALSE) for an invalid path, for a suffix without
\* processor and when the processor raises; else the sanitized content with no
\* metadata (TXTProcessor) or with the document properties (DOCXProcessor, the
\* document one paragraph). No path of the model is a .pdf.
process_document(file_path) ==
    LET format == LStripDots(Lower(Suffix(file_path)))
        none == [ok |-> FALSE, content |-> <<>>, metadata |-> EmptyDict]
    IN  IF ~validate_file_path(files[file_path]) THEN none
        ELSE IF format \notin TextFormats \cup DocxFormats THEN none
        ELSE IF files[file_path].damaged THEN none
        ELSE [ok |-> TRUE, content |-> files[file_path].content,
              metadata |-> IF format \in DocxFormats
                           THEN DocxMetadata(files[file_path]) ELSE EmptyDict]

\* hashlib.md5(...).hexdigest(): distinct inputs give distinct digests
MD5(s) == <<"md5", s>>

\* an id that also depends on the number of entries in the index
ChunkIdCounting(file_path, chunk_index) ==
    MD5(file_path \o <<"_">> \o Digits(chunk_index + Cardinality(DOMAIN index)))

\* an id made of the chunk index alone
ChunkIdOfIndex(file_path, chunk_index) == MD5(<<"_">> \o Digits(chunk_index))

\* _generate_chunk_id
generate_chunk_id(file_path, chunk_index) ==
    MD5(file_path \o <<"_">> \o Digits(chunk_index))

\* extract_metadata_from_filename(file_path.name) of each path
FilenameMetadata == [p \in Paths |-> extract_metadata_from_filename(Name(p))]

\* chunk[:500] of each chunk of each document
Previews ==
    [d \in DOMAIN Documents |->
        [i \in DOMAIN KBChunks[d] |-> PySlice(KBChunks[d][i], 0, PreviewLen)]]

\* the file attributes base_metadata starts from
FileAttributes(file_path, now) ==
    ("source" :> StrVal(file_path))
    @@ ("file_type" :> StrVal(LStripDots(Suffix(file_path))))
    @@ ("file_size" :> IntVal(Len(Documents[files[file_path].content])))
    @@ ("processed_at" :> StrVal(isoformat(now)))

\* the updates in the opposite order: the caller's override first, the document
\* metadata last
MergedOverrideFirst(file_path, doc_metadata, metadata_override, now) ==
    Update(Update(Update(FileAttributes(file_path, now), metadata_override),
                  FilenameMetadata[file_path]),
           doc_metadata)

\* base_metadata after the three updates
MergedMetadata(file_path, doc_metadata, metadata_override, now) ==
    LET base_metadata == FileAttributes(file_path, now)
        with_doc == Update(base_metadata, doc_metadata)
        with_filename == Update(with_doc, FilenameMetadata[file_path])
    IN  IF metadata_override # EmptyDict
        THEN Update(with_filename, metadata_override)
        ELSE with_filename

\* meta of chunk i (0-based) of n without the cleaning: None values stay
ChunkMetadataUncleaned(file_path, i, n, preview, base_metadata) ==
    Update(("source" :> StrVal(file_path))
           @@ ("chunk_index" :> IntVal(i))
           @@ ("total_chunks" :> IntVal(n))
           @@ ("content" :> StrVal(preview)),
           base_metadata)

\* cleaned_meta of chunk i (0-based) of n
ChunkMetadata(file_path, i, n, preview, base_metadata) ==
    LET meta == Update(("source" :> StrVal(file_path))
                       @@ ("chunk_index" :> IntVal(i))
                       @@ ("total_chunks" :> IntVal(n))
                       @@ ("content" :> StrVal(preview)),
                       base_metadata)
    IN  [k \in {x \in DOMAIN meta : meta[x] # None} |-> meta[k]]

\* KnowledgeBase.initialize
Initialize ==
    /\ exists' = TRUE
    /\ connected' = TRUE
    /\ kb_out' = [op |-> "initialize", status |-> "returned"]
    /\ UNCHANGED <<chunkVars, embedVars, index, calls, store_out, files, restVars>>

\* the chunks ingest_document makes of a path: none when processing fails
ChunksOf(file_path) ==
    LET processed == process_document(file_path)
    IN  IF processed.ok THEN KBChunks[processed.content] ELSE <<>>

\* a success flag that tells whether the index acknowledged every chunk
SucceededWhenAllStored(n, upserted_count) == upserted_count = n

\* "success" in the dict returned after the upsert
Succeeded(n, upserted_count) == TRUE

\* ingest_document at time `now` on the index content idx, the embedding service
\* answering with `responses` and the index service with `outcomes`: the index
\* content afterwards, the dict returned or the exception raised, the local
\* chunk_ids, the number of requests sent to the embedding service and the count the
\* index service acknowledged for each remote upsert
ingest_into(idx, file_path, metadata_override, now, responses, outcomes) ==
    LET processed == process_document(file_path)
        Fails(reason) ==
            [index |-> idx, status |-> "returned",
             result |-> [success |-> FALSE, error |-> reason], chunk_ids |-> <<>>,
             embed_requests |-> 0, acknowledged |-> <<>>]
    IN  IF ~processed.ok THEN Fails("Processing failed")
        ELSE IF KBChunks[processed.content] = <<>> THEN Fails("No chunks created")
        ELSE LET doc_chunks == KBChunks[processed.content]
                 n == Len(doc_chunks)
                 base_metadata ==
                     MergedMetadata(file_path, processed.metadata, metadata_override, now)
                 run == embed_batch(doc_chunks, DefaultEmbedBatch, responses)
                 chunk_ids == [i \in 1..n |-> generate_chunk_id(file_path, i - 1)]
                 chunk_metadata ==
                     [i \in 1..n |->
                         ChunkMetadata(file_path, i - 1, n, Previews[processed.content][i],
                                       base_metadata)]
                 out == upsert_batch(idx, run.embeddings, chunk_ids, chunk_metadata,
                                     DefaultBatchSize, outcomes)
             IN  [index |-> out.index,
                  status |-> IF out.raised THEN "raised" ELSE "returned",
                  result |-> IF out.raised THEN [error |-> out.error]
                             ELSE [success |-> Succeeded(n, out.upserted_count),
                                   file |-> file_path, chunks |-> n,
                                   upserted |-> out.upserted_count],
                  chunk_ids |-> chunk_ids,
                  embed_requests |-> Len(run.requests),
                  acknowledged |->
                     [c \in DOMAIN out.calls |-> out.calls[c].upserted_count]]

\* ingest_document on the index as it is
ingest_document(file_path, metadata_override, now, responses, outcomes) ==
    ingest_into(index, file_path, metadata_override, now, responses, outcomes)

\* a call of ingest_document. kb_out.previous records, when the operation before
\* this one was a successful ingestion of the same path, the ids it generated and the
\* ids the index held after it.
IngestDocument ==
    /\ \E file_path \in Paths, metadata_override \in Overrides, now \in Clock :
        \E n \in {Len(ChunksOf(file_path))} :
        \E responses \in [1..n -> KBResponses],
           outcomes \in [1..CeilDiv(n, DefaultBatchSize) -> UpsertOutcomes] :
        \E r \in {ingest_document(file_path, metadata_override, now, responses,
                                  outcomes)} :
           /\ index' = r.index
           /\ kb_out' =
                 [op |-> "ingest_document", file_path |-> file_path,
                  metadata_override |-> metadata_override,
                  status |-> r.status, result |-> r.result, chunk_ids |-> r.chunk_ids,
                  embed_requests |-> r.embed_requests,
                  acknowledged |-> r.acknowledged,
                  previous |->
                     IF /\ kb_out.op = "ingest_document"
                        /\ kb_out.file_path = file_path
                        /\ kb_out.status = "returned"
                        /\ kb_out.result.success
                     THEN [ingested |-> TRUE, chunk_ids |-> kb_out.chunk_ids,
                           index_ids |-> DOMAIN index]
                     ELSE [ingested |-> FALSE, chunk_ids |-> <<>>, index_ids |-> {}]]
    /\ UNCHANGED <<chunkVars, embedVars, exists, connected, calls, store_out, files, restVars>>

\* delete_document: the remote delete by the filter {'source': str(file_path)}
DeleteDocument ==
    /\ \E file_path \in Paths, rejected \in BOOLEAN :
         \E out \in {delete(index, <<>>, ("source" :> StrVal(file_path)), FALSE,
                            rejected)} :
             /\ index' = out.index
             /\ kb_out' = [op |-> "delete_document", file_path |-> file_path,
                           status |-> IF out.raised THEN "raised" ELSE "returned",
                           error |-> out.error]
    /\ UNCHANGED <<chunkVars, embedVars, exists, connected, calls, store_out, files, restVars>>

\* the file system between two calls: a.txt, present, is rewritten with another
\* text that has sentences
WriteFile ==
    /\ files[PathA].exists
    /\ \E d \in {k \in DOMAIN Documents : KBChunks[k] # <<>>} :
         /\ files[PathA] # File(d)
         /\ files' = [files EXCEPT ![PathA] = File(d)]
    /\ UNCHANGED <<chunkVars, embedVars, storeVars, kb_out, restVars>>

-----------------------------------------------------------------------------
(* scripts/ingest/batch_ingest.py *)

\* the characters of the paths in the order of their code points
CharOrder ==
    <<".", "/">> \o DigitChars \o UpperCase \o <<"_">> \o LowerCase
Rank(c) == CHOOSE k \in DOMAIN CharOrder : CharOrder[k] = c

\* p < q as Python compares two str
Before(p, q) ==
    \E k \in 1..(Len(q)) :
        /\ \A j \in 1..(k - 1) : j <= Len(p) /\ p[j] = q[j]
        /\ k > Len(p) \/ (k <= Len(p) /\ Rank(p[k]) < Rank(q[k]))

\* sorted(documents)
RECURSIVE Sorted(_)
Sorted(S) ==
    IF S = {} THEN <<>>
    ELSE LET least == CHOOSE p \in S : \A q \in S \ {p} : Before(p, q)
         IN  <<least>> \o Sorted(S \ {least})

\* the default extensions of get_documents
Extensions ==
    {<<".", "p", "d", "f">>, <<".", "d", "o", "c", "x">>, <<".", "t", "x", "t">>,
     <<".", "m", "d">>}
EndsWith(p, ext) ==
    Len(p) >= Len(ext) /\ SubSeq(p, Len(p) - Len(ext) + 1, Len(p)) = ext

\* get_documents: the existing paths that match **/*{ext} for one of the extensions
\* (a path matches at most one of them), sorted
get_documents ==
    Sorted({p \in Paths : files[p].exists /\ \E ext \in Extensions : EndsWith(p, ext)})

\* the loop body that drops a document whose ingestion raised without counting it
TallySkippingRaised(state, doc_path, r) ==
    IF r.status = "raised" THEN state
    ELSE IF r.result.success
    THEN [state EXCEPT !.results.success = @ + 1,
                       !.results.total_chunks = @ + r.result.chunks]
    ELSE [state EXCEPT !.results.failed = @ + 1,
                       !.failed_files = Append(@, <<Name(doc_path), r.result.error>>)]

\* the loop body after kb.ingest_document(doc_path) returned or raised: the counts
\* and the failure list
Tally(state, doc_path, r) ==
    IF r.status = "raised"
    THEN [state EXCEPT !.results.failed = @ + 1,
                       !.failed_files = Append(@, <<Name(doc_path), r.result.error>>)]
    ELSE IF r.result.success
    THEN [state EXCEPT !.results.success = @ + 1,
                       !.results.total_chunks = @ + r.result.chunks]
    ELSE [state EXCEPT !.results.failed = @ + 1,
                       !.failed_files = Append(@, <<Name(doc_path), r.result.error>>)]

\* main up to the loop: the knowledge base is initialized and the documents are
\* listed; without documents main returns
BatchStart ==
    /\ script.pc = "idle"
    /\ exists' = TRUE
    /\ connected' = TRUE
    /\ script' = [pc |-> IF get_documents = <<>> THEN "returned" ELSE "loop",
                  documents |-> get_documents,
                  position |-> 0,
                  results |-> [success |-> 0, failed |-> 0, total_chunks |-> 0],
                  failed_files |-> <<>>,
                  attempts |-> <<>>]
    /\ UNCHANGED <<chunkVars, embedVars, index, calls, store_out, kbVars, meta_out, llm, clean_out>>

\* one iteration of `for doc_path in documents`. script.attempts records the path
\* passed to each ingest_document call and how the call ended.
BatchStep ==
    /\ script.pc = "loop"
    /\ script.position < Len(script.documents)
    /\ \E doc_path \in {script.documents[script.position + 1]} :
        \E n \in {Len(ChunksOf(doc_path))} :
        \E responses \in [1..n -> KBResponses],
           outcomes \in [1..CeilDiv(n, DefaultBatchSize) -> UpsertOutcomes] :
        \E r \in {ingest_document(doc_path, EmptyDict, 1, responses, outcomes)} :
        \E tallied \in {Tally(script, doc_path, r)} :
           /\ index' = r.index
           /\ script' =
                 [tallied EXCEPT
                     !.position = @ + 1,
                     !.attempts =
                         Append(@, [doc_path |-> doc_path,
                                    outcome |-> IF r.status = "raised" THEN "raised"
                                                ELSE IF r.result.success THEN "success"
                                                ELSE "failed"])]
    /\ UNCHANGED <<chunkVars, embedVars, exists, connected, calls, store_out, kbVars,
                   meta_out, llm, clean_out>>

\* main after the loop: the summary is logged and main returns
BatchSummary ==
    /\ script.pc = "loop"
    /\ script.position = Len(script.documents)
    /\ script' = [script EXCEPT !.pc = "returned"]
    /\ UNCHANGED <<chunkVars, embedVars, storeVars, kbVars, meta_out, llm, clean_out>>

-----------------------------------------------------------------------------
(* The components at rest *)

ChunkerAtRest ==
    /\ text = <<>>
    /\ chunker = KBChunker
    /\ pc = "ready"
    /\ start = 0
    /\ iter = 0
    /\ chunks = <<>>

EmbedderAtRest ==
    /\ requests = <<>>
    /\ embed_out = [status |-> "idle"]

StoreAtRest ==
    /\ exists = FALSE
    /\ connected = FALSE
    /\ index = <<>>
    /\ calls = <<>>
    /\ store_out = [op |-> "none", status |-> "idle"]

KnowledgeBaseAtRest ==
    /\ files = [p \in Paths |-> NoFile]
    /\ kb_out = [op |-> "none", status |-> "idle"]

\* no call of the validators, of the LLM client or of the batch script
RestAtRest ==
    /\ meta_out = [status |-> "idle"]
    /\ llm = [status |-> "idle"]
    /\ script = [pc |-> "idle"]
    /\ clean_out = [status |-> "idle"]

-----------------------------------------------------------------------------
(* get_chunker and the chunker specification *)

FixedChunkers ==
    [kind : {"fixed"}, chunk_size : 1..MaxSize, chunk_overlap : 0..MaxOverlap]

SemanticChunkers ==
    [kind : {"semantic"}, max_chunk_size : 1..MaxSize, min_chunk_size : 0..MaxMin]

RecursiveChunkers ==
    [kind : {"recursive"}, chunk_size : 1..MaxSize, chunk_overlap : {0, MaxOverlap},
     separators : {DefaultSeparators}]

get_chunker == FixedChunkers \cup SemanticChunkers \cup RecursiveChunkers

ChunkInit ==
    /\ text \in Texts
    /\ chunker \in get_chunker
    /\ pc = "ready"
    /\ start = 0
    /\ iter = 0
    /\ chunks = <<>>
    /\ EmbedderAtRest
    /\ StoreAtRest
    /\ KnowledgeBaseAtRest
    /\ RestAtRest

ChunkNext ==
    \/ FixedEnter
    \/ FixedLoop
    \/ SemanticCall
    \/ RecursiveCall

ChunkSpec == ChunkInit /\ [][ChunkNext]_vars

\* the FixedSizeChunker alone; a running chunk() call keeps executing, so the step it
\* can take is eventually taken
FixedInit ==
    /\ text \in UNION {[1..n -> Alphabet] : n \in 0..MaxFixedLen}
    /\ chunker \in FixedChunkers
    /\ pc = "ready"
    /\ start = 0
    /\ iter = 0
    /\ chunks = <<>>
    /\ EmbedderAtRest
    /\ StoreAtRest
    /\ KnowledgeBaseAtRest
    /\ RestAtRest

FixedNext ==
    \/ FixedEnter
    \/ FixedLoop

FixedFairSpec == FixedInit /\ [][FixedNext]_vars /\ WF_vars(FixedNext)

\* the SemanticChunker alone, on longer texts of several sentences
SentenceInit ==
    /\ text \in SentenceTexts
    /\ chunker \in [kind : {"semantic"}, max_chunk_size : 1..MaxSentenceSize,
                    min_chunk_size : 0..MaxSentenceSize]
    /\ pc = "ready"
    /\ start = 0
    /\ iter = 0
    /\ chunks = <<>>
    /\ EmbedderAtRest
    /\ StoreAtRest
    /\ KnowledgeBaseAtRest
    /\ RestAtRest

SentenceSpec == SentenceInit /\ [][SemanticCall]_vars

-----------------------------------------------------------------------------
(* The embedder, the vector store and the knowledge base *)

\* embed_batch on its own
EmbedInit ==
    /\ ChunkerAtRest
    /\ EmbedderAtRest
    /\ StoreAtRest
    /\ KnowledgeBaseAtRest
    /\ RestAtRest

EmbedSpec == EmbedInit /\ [][EmbedBatchCall]_vars

\* extract_metadata_from_filename on its own
FilenameInit ==
    /\ ChunkerAtRest
    /\ EmbedderAtRest
    /\ StoreAtRest
    /\ KnowledgeBaseAtRest
    /\ RestAtRest

FilenameSpec == FilenameInit /\ [][ExtractMetadataCall]_vars

\* sanitize_text on its own
SanitizeInit ==
    /\ ChunkerAtRest
    /\ EmbedderAtRest
    /\ StoreAtRest
    /\ KnowledgeBaseAtRest
    /\ RestAtRest

SanitizeSpec == SanitizeInit /\ [][SanitizeCall]_vars

\* _request_with_retry on its own
RetryInit ==
    /\ ChunkerAtRest
    /\ EmbedderAtRest
    /\ StoreAtRest
    /\ KnowledgeBaseAtRest
    /\ RestAtRest

RetryNext ==
    \/ RetryCall
    \/ RetryAttempt

RetrySpec == RetryInit /\ [][RetryNext]_vars

\* the vector store on its own: the index may exist already, with or without an entry
StoreInit ==
    /\ ChunkerAtRest
    /\ EmbedderAtRest
    /\ exists \in BOOLEAN
    /\ connected = FALSE
    /\ index \in {<<>>, (<<"id", 1>> :> [values |-> Uniform(1, 0), metadata |-> EmptyDict])}
    /\ index # <<>> => exists
    /\ calls = <<>>
    /\ store_out = [op |-> "none", status |-> "idle"]
    /\ KnowledgeBaseAtRest
    /\ RestAtRest

StoreNext ==
    \/ CreateIndex
    \/ UpsertCall
    \/ UpsertBatchCall
    \/ QueryCall
    \/ DeleteCall
    \/ GetStatsCall

StoreSpec == StoreInit /\ [][StoreNext]_vars

\* the batch script over a file system and an empty index
BatchInit ==
    /\ ChunkerAtRest
    /\ EmbedderAtRest
    /\ StoreAtRest
    /\ files \in FileSystems
    /\ kb_out = [op |-> "none", status |-> "idle"]
    /\ RestAtRest

BatchNext ==
    \/ BatchStart
    \/ BatchStep
    \/ BatchSummary

BatchSpec == BatchInit /\ [][BatchNext]_vars

\* the knowledge base over a file system and an empty index
Init ==
    /\ ChunkerAtRest
    /\ EmbedderAtRest
    /\ exists = FALSE
    /\ connected = FALSE
    /\ index = <<>>
    /\ calls = <<>>
    /\ store_out = [op |-> "none", status |-> "idle"]
    /\ files \in FileSystems
    /\ kb_out = [op |-> "none", status |-> "idle"]
    /\ RestAtRest

Next ==
    \/ Initialize
    \/ IngestDocument
    \/ DeleteDocument

Spec == Init /\ [][Next]_vars

\* the knowledge base on files whose content changes between the calls
RewriteNext ==
    \/ Initialize
    \/ IngestDocument
    \/ DeleteDocument
    \/ WriteFile

RewriteSpec == Init /\ [][RewriteNext]_vars

-----------------------------------------------------------------------------
(* Claims about the chunkers *)

\* the size threshold of a chunker: chunk_size, or max_chunk_size for Semantic
Threshold(c) == IF c.kind = "semantic" THEN c.max_chunk_size ELSE c.chunk_size

NonWhitespace(s) == SelectSeq(s, LAMBDA ch : ch \notin Whitespace)

RECURSIVE IsSubsequence(_, _)
IsSubsequence(a, b) ==
    IF a = <<>> THEN TRUE
    ELSE IF b = <<>> THEN FALSE
    ELSE IF Head(a) = Head(b) THEN IsSubsequence(Tail(a), Tail(b))
    ELSE IsSubsequence(a, Tail(b))

RECURSIVE SumLen(_)
SumLen(list) == IF list = <<>> THEN 0 ELSE Len(Head(list)) + SumLen(Tail(list))

\* C1: FixedSizeChunker.chunk built with chunk_overlap >= chunk_size never loops
\* forever: for every text the call eventually ends (the claim has it end by
\* returning its list; here even an end by exception counts).
C1_FixedTerminates ==
    (chunker.kind = "fixed" /\ chunker.chunk_overlap >= chunker.chunk_size)
        => <>(pc \in {"returned", "raised"})

\* C2: for each chunker, a non-blank text shorter than the size threshold makes
\* chunk(text) return normally with exactly one chunk, equal to text.strip().
C2_ShortTextSingleChunk ==
    (/\ pc \in {"returned", "raised"}
     /\ Strip(text) # <<>>
     /\ Len(text) < Threshold(chunker))
        => (pc = "returned" /\ chunks = <<Strip(text)>>)

\* C3: for each chunker, chunk(text) returns the empty list when text is empty or
\* whitespace-only, and every chunk of any returned list is non-empty with no
\* leading or trailing whitespace.
C3_ChunksTrimmedNonEmpty ==
    /\ (Strip(text) = <<>> /\ pc # "ready") => (pc = "returned" /\ chunks = <<>>)
    /\ pc = "returned" =>
          \A i \in 1..Len(chunks) :
              /\ chunks[i] # <<>>
              /\ chunks[i][1] \notin Whitespace
              /\ chunks[i][Len(chunks[i])] \notin Whitespace

\* C3 witness: a call returned several chunks of a text that starts with whitespace
\* and has whitespace between its words.
C3_Witness ==
    /\ pc = "returned"
    /\ Len(chunks) >= 2
    /\ text[1] \in Whitespace
    /\ \E i \in 2..(Len(text) - 1) :
          text[i] \in Whitespace /\ text[i - 1] \notin Whitespace

\* C4: every non-whitespace character of the input appears, in input order, in the
\* returned chunks (the period of ". " at a chunk boundary included).
C4_NoContentDropped ==
    pc = "returned" => IsSubsequence(NonWhitespace(text), Join(chunks, <<>>))

\* C5: SemanticChunker.chunk on a text whose sentences have a total length of at most
\* max_chunk_size returns exactly one chunk, also below min_chunk_size, and the chunk
\* holds all the sentences in input order (joined by single spaces).
C5_SemanticOneChunk ==
    (/\ pc = "returned"
     /\ chunker.kind = "semantic"
     /\ split_sentences(text) # <<>>
     /\ SumLen(split_sentences(text)) <= chunker.max_chunk_size)
        => /\ Len(chunks) = 1
           /\ chunks[1] = Join(split_sentences(text), <<" ">>)
           /\ NonWhitespace(chunks[1]) = NonWhitespace(text)

\* C5 witness: three sentences, total length within max_chunk_size and below
\* min_chunk_size, came back as one chunk.
C5_Witness ==
    /\ pc = "returned"
    /\ chunker.kind = "semantic"
    /\ Len(split_sentences(text)) = 3
    /\ SumLen(split_sentences(text)) <= chunker.max_chunk_size
    /\ SumLen(split_sentences(text)) < chunker.min_chunk_size
    /\ Len(chunks) = 1

\* C6: an ingest_document call that directly follows a successful ingestion of the
\* same path (the file unchanged) generates the same list of chunk ids, all distinct,
\* and leaves in the index exactly the ids it held after the first ingestion.
C6_ReingestSameIds ==
    (kb_out.op = "ingest_document" /\ kb_out.previous.ingested)
        => /\ kb_out.chunk_ids = kb_out.previous.chunk_ids
           /\ \A i, j \in DOMAIN kb_out.chunk_ids :
                 i # j => kb_out.chunk_ids[i] # kb_out.chunk_ids[j]
           /\ DOMAIN index = kb_out.previous.index_ids

\* C6 witness: a document of several chunks was ingested a second time, successfully,
\* into an index that also holds the entries of another document.
C6_Witness ==
    /\ kb_out.op = "ingest_document"
    /\ kb_out.previous.ingested
    /\ kb_out.status = "returned"
    /\ kb_out.result.success
    /\ Len(kb_out.chunk_ids) >= 2
    /\ Cardinality(DOMAIN index) > Len(kb_out.chunk_ids)

\* C7: embed_batch always returns; the list it returns has one vector per text, in
\* input order: the service's vector where the request for that text succeeded, the
\* zero vector of length 768 where it failed.
C7_EmbedBatchIsolatesFailures ==
    embed_out.status # "idle"
        => /\ embed_out.status = "returned"
           /\ Len(embed_out.value) = Len(embed_out.texts)
           /\ Len(requests) = Len(embed_out.texts)
           /\ \A i \in 1..Len(embed_out.texts) :
                 /\ requests[i].prompt = embed_out.texts[i]
                 /\ embed_out.value[i] =
                       IF requests[i].response.ok
                       THEN requests[i].response.embedding
                       ELSE [length |-> 768, component |-> 0]

\* C7 witness: three texts in batches of two, the request for the second failed and
\* those for the first and the third succeeded.
C7_Witness ==
    /\ embed_out.status = "returned"
    /\ Len(embed_out.texts) = 3
    /\ embed_out.batch_size = 2
    /\ requests[1].response.ok
    /\ ~requests[2].response.ok
    /\ requests[3].response.ok

\* the k-th entry of the upsert_batch call
Entry(k) ==
    [id |-> store_out.ids[k], values |-> store_out.vectors[k],
     metadata |-> store_out.metadata[k]]

\* the entries batch c of the upsert_batch call carries
BatchEntries(c) ==
    LET first == (c - 1) * store_out.batch_size + 1
        last == Min({c * store_out.batch_size, Len(store_out.vectors)})
    IN  [k \in 1..(last - first + 1) |-> Entry(first + k - 1)]

RECURSIVE SumAcknowledged(_)
SumAcknowledged(log) ==
    IF log = <<>> THEN 0 ELSE Head(log).upserted_count + SumAcknowledged(Tail(log))

\* C8: an upsert_batch call on n aligned lists that returns has made ceil(n/b) remote
\* upsert calls, the c-th carrying entries (c-1)b+1 .. min(cb, n) in order, and its
\* upserted_count is the sum of the counts the calls acknowledged.
C8_BatchesAndTotal ==
    (/\ store_out.op = "upsert_batch"
     /\ store_out.status = "returned"
     /\ Len(store_out.ids) = Len(store_out.vectors)
     /\ Len(store_out.metadata) = Len(store_out.vectors))
        => LET n == Len(store_out.vectors)
               b == store_out.batch_size
           IN  /\ Len(calls) = (n + b - 1) \div b
               /\ \A c \in 1..Len(calls) :
                     /\ calls[c].kind = "upsert"
                     /\ Len(calls[c].vectors) = IF c * b <= n THEN b ELSE n - (c - 1) * b
                     /\ calls[c].vectors = BatchEntries(c)
               /\ store_out.result = <<SumAcknowledged(calls)>>

\* C8 witness: five entries in batches of two made three calls (2, 2, 1) and the
\* service acknowledged fewer entries than were sent.
C8_Witness ==
    /\ store_out.op = "upsert_batch"
    /\ store_out.status = "returned"
    /\ Len(store_out.vectors) = 5
    /\ Len(store_out.ids) = 5
    /\ Len(store_out.metadata) = 5
    /\ store_out.batch_size = 2
    /\ Len(calls) = 3
    /\ store_out.result # <<5>>

\* C9: a remote upsert that the service rejected is the last call of upsert_batch:
\* the call raised, returned no count, issued batches 1..k once each and in order
\* (no retry of batch k, no batch after it), and the index holds what it held before
\* with the entries of batches 1..k-1 written over it.
C9_RejectedBatchRaises ==
    store_out.op = "upsert_batch"
        => \A k \in DOMAIN calls :
              calls[k].rejected
                  => LET written == 1..((k - 1) * store_out.batch_size)
                         ids == {store_out.ids[j] : j \in written}
                     IN  /\ k = Len(calls)
                         /\ store_out.status = "raised"
                         /\ store_out.result = <<>>
                         /\ \A c \in 1..k : calls[c].vectors = BatchEntries(c)
                         /\ \A c \in 1..(k - 1) : ~calls[c].rejected
                         /\ DOMAIN index = DOMAIN store_out.before \cup ids
                         /\ \A j \in written :
                               index[store_out.ids[j]] =
                                   [values |-> store_out.vectors[j],
                                    metadata |-> store_out.metadata[j]]
                         /\ \A id \in DOMAIN store_out.before \ ids :
                               index[id] = store_out.before[id]

\* C9 witness: of five entries in batches of two the second batch was rejected, with
\* an entry in the index beforehand that the first batch overwrote.
C9_Witness ==
    /\ store_out.op = "upsert_batch"
    /\ store_out.status = "raised"
    /\ Len(store_out.vectors) = 5
    /\ store_out.batch_size = 2
    /\ Len(calls) = 2
    /\ calls[2].rejected
    /\ store_out.before # <<>>
    /\ index # store_out.before

\* the index entries ingest_document generated for a path
IngestedFrom(file_path) ==
    {id \in DOMAIN index :
        \E i \in 0..(MaxSentences - 1) : id = generate_chunk_id(file_path, i)}

\* C10: after delete_document(path) returns, the index holds no entry that was
\* ingested from that path and no entry whose metadata source is str(path).
C10_DeleteRemovesIngested ==
    (kb_out.op = "delete_document" /\ kb_out.status = "returned")
        => /\ IngestedFrom(kb_out.file_path) = {}
           /\ \A id \in DOMAIN index :
                 index[id].metadata["source"] # StrVal(kb_out.file_path)

-----------------------------------------------------------------------------
(* Claims about metadata, results and the index operations *)

\* C11: extract_metadata_from_filename("ECOWAS_Mining_Vision_2025.txt") returns
\* document_type "policy", sector "minerals" and date "2025".
C11_MiningVisionExample ==
    (/\ meta_out.status = "returned"
     /\ meta_out.filename =
            <<"E", "C", "O", "W", "A", "S", "_", "M", "i", "n", "i", "n", "g", "_",
              "V", "i", "s", "i", "o", "n", "_", "2", "0", "2", "5", ".", "t", "x", "t">>)
        => /\ meta_out.value["document_type"] = StrVal(<<"p", "o", "l", "i", "c", "y">>)
           /\ meta_out.value["sector"] =
                  StrVal(<<"m", "i", "n", "e", "r", "a", "l", "s">>)
           /\ meta_out.value["date"] = StrVal(<<"2", "0", "2", "5">>)

\* C12: after a successful ingest_document of n chunks the metadata record written for
\* the i-th chunk carries chunk_index i (counted from 0) and total_chunks n,
\* whatever metadata_override was passed.
C12_ChunkIndexDense ==
    (/\ kb_out.op = "ingest_document"
     /\ kb_out.status = "returned"
     /\ kb_out.result.success)
        => \A i \in 1..Len(kb_out.chunk_ids) :
              LET meta == index[kb_out.chunk_ids[i]].metadata
              IN  /\ "chunk_index" \in DOMAIN meta
                  /\ meta["chunk_index"] = IntVal(i - 1)
                  /\ "total_chunks" \in DOMAIN meta
                  /\ meta["total_chunks"] = IntVal(kb_out.result.chunks)

\* the sources of metadata of the last ingest_document call, lowest precedence first:
\* file attributes, extracted document metadata, filename classification, override
MetadataSources(now) ==
    <<FileAttributes(kb_out.file_path, now),
      process_document(kb_out.file_path).metadata,
      FilenameMetadata[kb_out.file_path],
      kb_out.metadata_override>>

\* C13: after a successful ingest_document every stored metadata key that one of the
\* four sources supplies holds the value of the last source, in the order file
\* attributes, document metadata, filename classification, caller override, that
\* has the key.
C13_LaterSourceWins ==
    (/\ kb_out.op = "ingest_document"
     /\ kb_out.status = "returned"
     /\ kb_out.result.success)
        => \E now \in Clock :
              LET sources == MetadataSources(now)
              IN  \A i \in 1..Len(kb_out.chunk_ids) :
                     LET meta == index[kb_out.chunk_ids[i]].metadata
                     IN  \A k \in DOMAIN meta :
                            \A s \in 1..4 :
                               (/\ k \in DOMAIN sources[s]
                                /\ \A later \in (s + 1)..4 : k \notin DOMAIN sources[later])
                                   => meta[k] = sources[s][k]

\* C13 witness: policy.docx, whose properties give a title and whose name gives a
\* document type, was ingested with an override of both; the override's values are
\* stored, next to the author of the properties and the file type of the attributes.
C13_Witness ==
    /\ kb_out.op = "ingest_document"
    /\ kb_out.status = "returned"
    /\ kb_out.result.success
    /\ kb_out.file_path = PathC
    /\ {"title", "document_type"} \subseteq DOMAIN kb_out.metadata_override
    /\ FilenameMetadata[PathC]["document_type"] # None
    /\ LET meta == index[kb_out.chunk_ids[1]].metadata
       IN  /\ meta["title"] = kb_out.metadata_override["title"]
           /\ meta["title"] # StrVal(files[PathC].title)
           /\ meta["document_type"] = kb_out.metadata_override["document_type"]
           /\ meta["author"] = StrVal(<<>>)
           /\ meta["file_type"] = StrVal(<<"d", "o", "c", "x">>)

RECURSIVE Sum(_)
Sum(counts) == IF counts = <<>> THEN 0 ELSE Head(counts) + Sum(Tail(counts))

\* C14: ingest_document returns success = False with the reason "Processing failed",
\* without raising, for a missing file, an empty file, a suffix without processor
\* and a file its extractor cannot open, and with the reason "No chunks created" for
\* a file whose text gives no chunk; a successful result carries the number of
\* chunks of the text and the sum of the counts the index acknowledged.
C14_ResultOfIngestion ==
    kb_out.op = "ingest_document"
        => LET f == files[kb_out.file_path]
               format == LStripDots(Lower(Suffix(kb_out.file_path)))
               unprocessed ==
                   \/ ~f.exists
                   \/ Documents[f.content] = <<>>
                   \/ format \notin TextFormats \cup DocxFormats
                   \/ f.damaged
               produced == KBChunks[f.content]
           IN  /\ unprocessed
                    => /\ kb_out.status = "returned"
                       /\ kb_out.result = [success |-> FALSE, error |-> "Processing failed"]
               /\ (~unprocessed /\ produced = <<>>)
                    => /\ kb_out.status = "returned"
                       /\ kb_out.result = [success |-> FALSE, error |-> "No chunks created"]
               /\ (kb_out.status = "returned" /\ kb_out.result.success)
                    => /\ ~unprocessed
                       /\ produced # <<>>
                       /\ kb_out.result.chunks = Len(produced)
                       /\ kb_out.result.upserted = Sum(kb_out.acknowledged)

\* C14 witness: the extractor of policy.docx raised, before the index was
\* initialized, and ingest_document returned the failure.
C14_Witness ==
    /\ kb_out.op = "ingest_document"
    /\ kb_out.file_path = PathC
    /\ files[PathC].exists
    /\ files[PathC].damaged
    /\ ~connected
    /\ kb_out.status = "returned"
    /\ ~kb_out.result.success

\* the attempts of the batch that did not succeed
Unsuccessful == SelectSeq(script.attempts, LAMBDA a : a.outcome # "success")

\* C15: the batch passes the documents to ingest_document once each and in order,
\* whatever the outcome of the earlier ones; every attempt that returned
\* success = False or raised is counted as failed and has its entry in the failure
\* list, so that success + failed is the number of documents attempted, which at
\* the end is the number of documents.
C15_BatchCountsEveryDocument ==
    script.pc \in {"loop", "returned"}
        => /\ script.position <= Len(script.documents)
           /\ script.pc = "returned" => script.position = Len(script.documents)
           /\ Len(script.attempts) = script.position
           /\ \A k \in 1..script.position :
                 script.attempts[k].doc_path = script.documents[k]
           /\ script.results.failed = Len(Unsuccessful)
           /\ Len(script.failed_files) = script.results.failed
           /\ \A k \in 1..Len(Unsuccessful) :
                 script.failed_files[k][1] = Name(Unsuccessful[k].doc_path)
           /\ script.results.success + script.results.failed = script.position

\* C15 witness: a batch of two documents has ended; the ingestion of the first
\* raised and that of the second succeeded.
C15_Witness ==
    /\ script.pc = "returned"
    /\ Len(script.documents) = 2
    /\ script.attempts[1].outcome = "raised"
    /\ script.attempts[2].outcome = "success"
    /\ script.results = [success |-> 1, failed |-> 1, total_chunks |-> 1]

\* C16: a create_index call issues the remote create exactly when the index did not
\* exist before the call, which it does afterwards, and leaves the client with an
\* index handle.
C16_CreateOnlyWhenAbsent ==
    [][store_out'.op = "create_index"
          => /\ calls' = (IF exists THEN <<>> ELSE <<[kind |-> "create_index"]>>)
             /\ exists'
             /\ connected'
             /\ index' = index]_vars

\* C16 witness: create_index was called on an existing index that holds entries,
\* after an earlier create_index call; it issued no remote create and the client
\* holds the handle.
C16_Witness ==
    /\ store_out.op = "create_index"
    /\ store_out.status = "returned"
    /\ calls = <<>>
    /\ exists
    /\ connected
    /\ Cardinality(DOMAIN index) > 1

\* C17: an upsert, upsert_batch, query, delete or get_stats call made while the client
\* has no index handle (create_index was never called) raises the index-not-initialized
\* error and issues no call to the service, whatever its arguments.
C17_NotInitializedRaises ==
    (/\ store_out.op \in {"upsert", "upsert_batch", "query", "delete", "get_stats"}
     /\ ~connected)
        => /\ store_out.status = "raised"
           /\ store_out.error = "Index not initialized"
           /\ calls = <<>>

\* the remote delete a delete call issued
Deleted(selected) == [id \in DOMAIN store_out.before \ selected |-> store_out.before[id]]

\* C18: a delete call on an initialized index issues one remote delete, by delete_all
\* when it is set, else by ids when there are any, else by the filter when it is not
\* empty, and the accepted delete removes the entries that selector names; without
\* selector it issues no call, leaves the index as it was and returns.
C18_DeleteHonorsOneSelector ==
    (store_out.op = "delete" /\ connected)
        => LET o == store_out
               by_all == o.delete_all
               by_ids == ~o.delete_all /\ o.ids # <<>>
               by_filter == ~o.delete_all /\ o.ids = <<>> /\ o.filter # <<>>
               accepted == o.status = "returned"
           IN  /\ Len(calls) <= 1
               /\ by_all =>
                     /\ Len(calls) = 1
                     /\ calls[1].delete_all /\ calls[1].ids = <<>> /\ calls[1].filter = <<>>
                     /\ accepted => index = <<>>
               /\ by_ids =>
                     /\ Len(calls) = 1
                     /\ ~calls[1].delete_all /\ calls[1].ids = o.ids
                     /\ calls[1].filter = <<>>
                     /\ accepted => index = Deleted({o.ids[k] : k \in DOMAIN o.ids})
               /\ by_filter =>
                     /\ Len(calls) = 1
                     /\ ~calls[1].delete_all /\ calls[1].ids = <<>>
                     /\ calls[1].filter = o.filter
                     /\ accepted =>
                           index = Deleted({id \in DOMAIN o.before :
                                               \A k \in DOMAIN o.filter :
                                                  /\ k \in DOMAIN o.before[id].metadata
                                                  /\ o.before[id].metadata[k] = o.filter[k]})
               /\ ~(by_all \/ by_ids \/ by_filter) =>
                     /\ calls = <<>>
                     /\ index = o.before
                     /\ o.status = "returned"
               /\ ~accepted => index = o.before

\* C18 witness: delete was called with delete_all, ids and a filter on an index of
\* several entries; the one remote delete was a delete_all and emptied the index.
C18_Witness ==
    /\ store_out.op = "delete"
    /\ connected
    /\ store_out.delete_all
    /\ store_out.ids # <<>>
    /\ store_out.filter # <<>>
    /\ store_out.status = "returned"
    /\ Cardinality(DOMAIN store_out.before) > Len(store_out.ids)
    /\ Len(calls) = 1
    /\ index = <<>>

\* the positions of the requests among the events of the _request_with_retry call
RequestsAt == {k \in DOMAIN llm.events : llm.events[k].kind = "request"}

\* C19: a _request_with_retry call with max_retries = m >= 1 makes at most m requests;
\* only its last request can be other than a failed one, and a JSON body received is
\* what the call returns; every failed request but the m-th is followed by one sleep
\* of retry_delay and then, while the call runs on, by the next request, and the
\* m-th is followed by nothing: the call raises that failure.
C19_BoundedRetry ==
    (llm.status # "idle" /\ llm.max_retries >= 1)
        => LET e == llm.events
               n == Len(e)
               failed(k) == e[k].kind = "request" /\ e[k].outcome.kind = "RequestException"
           IN  /\ Cardinality(RequestsAt) <= llm.max_retries
               /\ \A k \in 1..n :
                     /\ k % 2 = 1 => e[k].kind = "request"
                     /\ k % 2 = 0 => e[k] = [kind |-> "sleep", seconds |-> llm.retry_delay]
                     /\ k < n => (k % 2 = 1 => failed(k))
               /\ llm.status = "running" => (n % 2 = 0 /\ llm.attempt = n \div 2)
               /\ llm.status = "returned"
                     => /\ n % 2 = 1
                        /\ e[n].outcome.kind = "json"
                        /\ llm.result = e[n].outcome.value
               /\ llm.status = "raised"
                     => /\ n % 2 = 1
                        /\ e[n].outcome.kind # "json"
                        /\ llm.result = e[n].outcome.value
                        /\ failed(n) => Cardinality(RequestsAt) = llm.max_retries

\* C19 witness: with max_retries = 3 and the default delay three requests failed in
\* three ways; two sleeps separate them and the call raised the third failure.
C19_Witness ==
    /\ llm.status = "raised"
    /\ llm.max_retries = 3
    /\ llm.retry_delay = 2
    /\ Len(llm.events) = 5
    /\ llm.events[1].outcome.value = "Timeout"
    /\ llm.events[3].outcome.value = "ConnectionError"
    /\ llm.events[5].outcome.value = "HTTPError"
    /\ llm.result = "HTTPError"

\* C20: when a request of embed_batch fails, the embedder retries it: it sends more
\* requests than there are texts.
C20_EmbeddingRetried ==
    (/\ embed_out.status = "returned"
     /\ \E k \in DOMAIN requests : ~requests[k].response.ok)
        => Len(requests) > Len(embed_out.texts)

\* C21: every vector embed_batch returns has the configured dimension, whatever the
\* length of the vectors the embedding service answers with.
C21_VectorsHaveDimension ==
    embed_out.status = "returned"
        => \A k \in DOMAIN embed_out.value : embed_out.value[k].length = dimension

\* a run of n consecutive characters of the set cs in t
HasRun(t, cs, n) ==
    \E i \in 1..(Len(t) - n + 1) : \A j \in i..(i + n - 1) : t[j] \in cs

\* a line of t starts or ends with a character of the set cs
LineEdge(t, cs) ==
    \E i \in 1..Len(t) :
        /\ t[i] \in cs
        /\ \/ i = 1 \/ t[i - 1] = "\n"
           \/ i = Len(t) \/ t[i + 1] = "\n"

\* C22: the output of sanitize_text has no run of three or more newlines, no run of
\* two or more spaces or tabs, no line that starts or ends with a space or tab, and no
\* control character other than newline and tab.
C22_SanitizedIsClean ==
    clean_out.status = "returned"
        => /\ ~HasRun(clean_out.value, {"\n"}, 3)
           /\ ~HasRun(clean_out.value, Blanks, 2)
           /\ ~LineEdge(clean_out.value, Blanks)
           /\ \A i \in DOMAIN clean_out.value : clean_out.value[i] \notin {"\r", "\f"}

\* C22, the part about newlines alone
C22_NoThreeNewlines ==
    clean_out.status = "returned" => ~HasRun(clean_out.value, {"\n"}, 3)

\* C23: no metadata record that ingest_document handed to the index upsert, and that
\* the index stored, has a field whose value is None, whatever the document
\* properties, the filename classification and the caller's override hold.
C23_NoNullMetadata ==
    \A id \in DOMAIN index :
        \A k \in DOMAIN index[id].metadata : index[id].metadata[k] # None

\* C23 witness: a.txt, whose name classifies nothing, was ingested with an override
\* that sets sector to None; the stored record has neither a sector nor a date and
\* keeps the document type of the override.
C23_Witness ==
    /\ kb_out.op = "ingest_document"
    /\ kb_out.status = "returned"
    /\ kb_out.result.success
    /\ kb_out.file_path = PathA
    /\ "sector" \in DOMAIN kb_out.metadata_override
    /\ kb_out.metadata_override["sector"] = None
    /\ FilenameMetadata[PathA]["date"] = None
    /\ kb_out.chunk_ids[1] \in DOMAIN index
    /\ LET meta == index[kb_out.chunk_ids[1]].metadata
       IN  /\ "sector" \notin DOMAIN meta
           /\ "date" \notin DOMAIN meta
           /\ meta["document_type"] = kb_out.metadata_override["document_type"]

\* C24: every iteration of the window loop of FixedSizeChunker.chunk leaves start
\* strictly greater than it was, and its progress guard executes without raising.
C24_WindowAdvances ==
    [][(/\ pc = "loop"
        /\ chunker.kind = "fixed"
        /\ start < Len(text))
           => (pc' # "raised" /\ start' > start)]_vars

\* C24, the part about the window start alone: an iteration that does not raise
\* leaves start strictly greater
C24_StartGrows ==
    [][(/\ pc = "loop"
        /\ chunker.kind = "fixed"
        /\ start < Len(text)
        /\ pc' # "raised")
           => start' > start]_vars

\* C25: with min_chunk_size = 0 and no sentence longer than max_chunk_size, every
\* chunk SemanticChunker.chunk returns has at most max_chunk_size characters, the
\* spaces that join its sentences included.
C25_SemanticWithinMax ==
    (/\ pc = "returned"
     /\ chunker.kind = "semantic"
     /\ chunker.min_chunk_size = 0
     /\ \A k \in DOMAIN split_sentences(text) :
            Len(split_sentences(text)[k]) <= chunker.max_chunk_size)
        => \A i \in DOMAIN chunks : Len(chunks[i]) <= chunker.max_chunk_size

\* C26: with the default separators and chunk_size >= 1, a call of
\* RecursiveChunker.chunk, once made, has returned (it neither raises nor stays in
\* the call), and every chunk it returns has at most chunk_size characters.
C26_RecursiveWithinSize ==
    (/\ chunker.kind = "recursive"
     /\ chunker.separators = DefaultSeparators
     /\ chunker.chunk_size >= 1
     /\ pc # "ready")
        => /\ pc = "returned"
           /\ \A i \in DOMAIN chunks : Len(chunks[i]) <= chunker.chunk_size

\* C26 witness: 'a  a' with chunk_size = 1: the splits on ' ' merge into ' a', longer
\* than chunk_size, which the character-level split takes apart again.
C26_Witness ==
    /\ pc = "returned"
    /\ chunker.kind = "recursive"
    /\ chunker.chunk_size = 1
    /\ text = <<"a", " ", " ", "a">>
    /\ Join(<<<<>>, <<"a">>>>, <<" ">>) = <<" ", "a">>
    /\ chunks = <<<<"a">>, <<"a">>>>

\* the ids the last ingest_document call generated
LatestIds == {kb_out.chunk_ids[i] : i \in DOMAIN kb_out.chunk_ids}

\* C27: after a successful ingest_document of a path whose content may have changed
\* since earlier ingestions, the index entries ingested from that path are exactly the
\* chunks of this ingestion: no entry of an earlier, longer ingestion survives.
C27_OnlyLatestChunks ==
    (/\ kb_out.op = "ingest_document"
     /\ kb_out.status = "returned"
     /\ kb_out.result.success)
        => IngestedFrom(kb_out.file_path) = LatestIds

\* C28: upsert_batch on a connected store with vectors, ids and metadata lists that
\* differ in length raises the length-mismatch error and leaves the index as it was.
C28_UnequalLengthsRejected ==
    (/\ store_out.op = "upsert_batch"
     /\ connected
     /\ \/ Len(store_out.vectors) # Len(store_out.ids)
        \/ Len(store_out.vectors) # Len(store_out.metadata))
        => /\ store_out.status = "raised"
           /\ store_out.error = "same length"
           /\ index = store_out.before

\* C28, the part about raising alone
C28_UnequalLengthsRaise ==
    (/\ store_out.op = "upsert_batch"
     /\ connected
     /\ \/ Len(store_out.vectors) # Len(store_out.ids)
        \/ Len(store_out.vectors) # Len(store_out.metadata))
        => store_out.status = "raised"

\* the entries of an index content without the processing timestamp
WithoutTimestamp(idx) ==
    [id \in DOMAIN idx |->
        [values |-> idx[id].values,
         metadata |-> [k \in DOMAIN idx[id].metadata \ {"processed_at"} |->
                          idx[id].metadata[k]]]]

\* what the two services can answer during one ingestion of a path
Answers(file_path) ==
    [responses : [1..Len(ChunksOf(file_path)) -> KBResponses],
     outcomes : [1..CeilDiv(Len(ChunksOf(file_path)), DefaultBatchSize) -> UpsertOutcomes]]

\* the index content after ingesting `first` at time 1 and `second` at time 2
AfterBoth(first, second) ==
    LET one == ingest_into(index, first.file_path, first.metadata_override, 1,
                           first.answers.responses, first.answers.outcomes)
    IN  ingest_into(one.index, second.file_path, second.metadata_override, 2,
                    second.answers.responses, second.answers.outcomes).index

\* the paths in a fixed order
PathList == <<PathA, PathB, PathC, PathD>>

\* C29: the chunk ids of two different paths are disjoint, and ingesting a path and
\* then another leaves the same index entries (ids, vectors and metadata other than
\* processed_at) as ingesting them in the other order, the services answering each
\* document alike. The index the two ingestions start from is any content the
\* knowledge base can give it: the states right after a delete_document call that
\* the service rejected, which leaves the index as it found it.
C29_IngestionsCommute ==
    (/\ kb_out.op = "delete_document"
     /\ kb_out.status = "raised"
     /\ kb_out.file_path = PathD)
        => \A m, n \in DOMAIN PathList :
              m < n =>
                 LET p == PathList[m]
                     q == PathList[n]
                 IN  /\ \A i, j \in 0..(MaxSentences - 1) :
                           generate_chunk_id(p, i) # generate_chunk_id(q, j)
                     /\ \A mo_p, mo_q \in Overrides :
                           \A a \in Answers(p), b \in Answers(q) :
                              LET A == [file_path |-> p, metadata_override |-> mo_p,
                                        answers |-> a]
                                  B == [file_path |-> q, metadata_override |-> mo_q,
                                        answers |-> b]
                              IN  WithoutTimestamp(AfterBoth(A, B))
                                     = WithoutTimestamp(AfterBoth(B, A))

\* C29 witness: a.txt and b.md were ingested and the index holds the entries of both
\* under different ids; a rejected delete_document followed, and from this index
\* the two documents are ingested again in both orders.
C29_Witness ==
    /\ kb_out.op = "delete_document"
    /\ kb_out.status = "raised"
    /\ kb_out.file_path = PathD
    /\ connected
    /\ Cardinality(IngestedFrom(PathA)) = MaxSentences
    /\ IngestedFrom(PathB) # {}
    /\ IngestedFrom(PathA) \cap IngestedFrom(PathB) = {}
    /\ Len(ChunksOf(PathA)) = MaxSentences
    /\ Len(ChunksOf(PathB)) = 1

\* C30: an ingest_document call that returns success = False has sent no request to
\* the embedding service and no upsert to the index, and leaves the index content
\* as it was.
C30_FailureTouchesNothing ==
    [][(/\ kb_out'.op = "ingest_document"
        /\ kb_out'.status = "returned"
        /\ ~kb_out'.result.success)
           => /\ kb_out'.embed_requests = 0
              /\ kb_out'.acknowledged = <<>>
              /\ index' = index]_vars

\* C30 witness: with entries of b.md in the index, the ingestion of a.txt, which
\* holds only whitespace, returned success = False for want of chunks.
C30_Witness ==
    /\ kb_out.op = "ingest_document"
    /\ kb_out.status = "returned"
    /\ ~kb_out.result.success
    /\ kb_out.result.error = "No chunks created"
    /\ kb_out.file_path = PathA
    /\ Documents[files[PathA].content] = Blank
    /\ IngestedFrom(PathB) # {}

====
